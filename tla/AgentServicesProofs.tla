-------------------------- MODULE AgentServicesProofs --------------------------
(***************************************************************************)
(* Proofs about AgentServices, for any number of threads, clients, roles,  *)
(* calls, entries and documents: the parts share no state, so each has an  *)
(* inductive invariant of its own, and a step of another part leaves it    *)
(* alone.  Then proofs about RequestShell, for any number of requests and  *)
(* changes: what a walk over a list that changes has passed, and what is   *)
(* ahead of it.                                                            *)
(***************************************************************************)
EXTENDS AgentServices, RequestShell, SequenceTheorems, FiniteSetTheorems, WellFoundedInduction,
        TLAPS

-----------------------------------------------------------------------------
(* Numbers and sequences.                                                  *)

\* Every set of naturals has a least element.
LEMMA LeastNat ==
    ASSUME NEW S, S \subseteq Nat, S # {}
    PROVE  \E x \in S : \A y \in S : x <= y
<1> DEFINE R == OpToRel(<, Nat)
<1>1. \A x, y \in Nat : y < x => <<y, x>> \in R
  BY DEF OpToRel
<1>2. IsWellFoundedOn(R, Nat)
  BY NatLessThanWellFounded
<1> HIDE DEF R
<1>3. PICK x \in S : \A y \in S : ~ (<<y, x>> \in R)
  BY <1>2, WFMin
<1>4. ASSUME NEW y \in S PROVE x <= y
  <2>1. ~(y < x)
    BY <1>1, <1>3
  <2> QED BY <2>1
<1> QED BY <1>4

\* One with an upper bound has a greatest.
LEMMA GreatestNat ==
    ASSUME NEW S, NEW m \in Nat, S \subseteq 0..m, S # {}
    PROVE  \E x \in S : \A y \in S : y <= x
<1> DEFINE D == {m - x : x \in S}
<1>1. D \subseteq Nat
  <2>1. \A x \in S : m - x \in Nat
    OBVIOUS
  <2> QED BY <2>1
<1>2. D # {}
  OBVIOUS
<1>3. PICK d \in D : \A e \in D : d <= e
  BY <1>1, <1>2, LeastNat
<1>4. PICK x \in S : d = m - x
  OBVIOUS
<1>5. ASSUME NEW y \in S PROVE y <= x
  <2>1. m - y \in D
    OBVIOUS
  <2>2. m - x <= m - y
    BY <1>3, <1>4, <2>1
  <2> QED BY <2>2
<1> QED BY <1>5

\* What stands where in the part of s from place a to place b, which may be just past an end.
LEMMA PartIs ==
    ASSUME NEW S, NEW s \in Seq(S), NEW a \in 1..Len(s) + 1, NEW b \in 0..Len(s), a <= b + 1
    PROVE  /\ SubSeq(s, a, b) \in Seq(S) /\ Len(SubSeq(s, a, b)) = b - a + 1
           /\ \A j \in 1..(b - a + 1) : SubSeq(s, a, b)[j] = s[a + j - 1]
<1>1. a \in Int /\ b \in Int /\ \A j \in a..b : s[j] \in S
  <2>1. Len(s) \in Nat /\ \A j \in 1..Len(s) : s[j] \in S
    OBVIOUS
  <2>2. \A j \in a..b : j \in 1..Len(s)
    BY <2>1
  <2> QED BY <2>1, <2>2
<1>2. /\ SubSeq(s, a, b) \in Seq(S)
      /\ Len(SubSeq(s, a, b)) = IF a <= b THEN b - a + 1 ELSE 0
      /\ \A j \in 1..(b - a + 1) : SubSeq(s, a, b)[j] = s[a + j - 1]
  BY <1>1, SubSeqProperties
<1>3. (IF a <= b THEN b - a + 1 ELSE 0) = b - a + 1
  BY <1>1
<1> QED BY <1>2, <1>3

\* To remove at a place closes the gap.
LEMMA RemoveAtIs ==
    ASSUME NEW S, NEW s \in Seq(S), NEW i \in 1..Len(s)
    PROVE  /\ RemoveAt(s, i) \in Seq(S) /\ Len(RemoveAt(s, i)) = Len(s) - 1
           /\ \A j \in 1..Len(s) - 1 : RemoveAt(s, i)[j] = s[IF j < i THEN j ELSE j + 1]
<1> DEFINE a == SubSeq(s, 1, i - 1)
           b == SubSeq(s, i + 1, Len(s))
<1>1. Len(s) \in Nat
  OBVIOUS
<1>2. /\ a \in Seq(S) /\ Len(a) = i - 1
      /\ \A j \in 1..(i - 1) : a[j] = s[j]
  <2>1. 1 \in 1..Len(s) + 1 /\ i - 1 \in 0..Len(s) /\ 1 <= i - 1 + 1
    BY <1>1
  <2>2. /\ a \in Seq(S) /\ Len(a) = i - 1 - 1 + 1
        /\ \A j \in 1..(i - 1 - 1 + 1) : a[j] = s[1 + j - 1]
    BY <2>1, PartIs
  <2> QED BY <1>1, <2>2
<1>3. /\ b \in Seq(S) /\ Len(b) = Len(s) - i
      /\ \A j \in 1..(Len(s) - i) : b[j] = s[i + j]
  <2>1. i + 1 \in 1..Len(s) + 1 /\ Len(s) \in 0..Len(s) /\ i + 1 <= Len(s) + 1
    BY <1>1
  <2>2. /\ b \in Seq(S) /\ Len(b) = Len(s) - (i + 1) + 1
        /\ \A j \in 1..(Len(s) - (i + 1) + 1) : b[j] = s[i + 1 + j - 1]
    BY <2>1, PartIs
  <2>3. \A j \in 1..(Len(s) - i) : j \in 1..(Len(s) - (i + 1) + 1) /\ i + 1 + j - 1 = i + j
    BY <1>1
  <2>4. \A j \in 1..(Len(s) - i) : b[j] = s[i + j]
    BY <2>2, <2>3
  <2> QED BY <1>1, <2>2, <2>4
<1> HIDE DEF a, b
<1>4. /\ a \o b \in Seq(S) /\ Len(a \o b) = Len(a) + Len(b)
      /\ \A j \in 1..(Len(a) + Len(b)) : (a \o b)[j] = IF j <= Len(a) THEN a[j] ELSE b[j - Len(a)]
  BY <1>2, <1>3, ConcatProperties
<1>5. Len(a) + Len(b) = Len(s) - 1
  BY <1>1, <1>2, <1>3
<1>6. ASSUME NEW j \in 1..Len(s) - 1 PROVE (a \o b)[j] = s[IF j < i THEN j ELSE j + 1]
  <2>1. CASE j < i
    BY <1>1, <1>2, <1>4, <1>5, <2>1
  <2>2. CASE ~(j < i)
    <3>1. j - (i - 1) \in 1..(Len(s) - i) /\ i + (j - (i - 1)) = j + 1
      BY <1>1, <2>2
    <3>2. b[j - (i - 1)] = s[i + (j - (i - 1))]
      BY <1>3, <3>1
    <3> QED BY <1>1, <1>2, <1>4, <1>5, <2>2, <3>1, <3>2
  <2> QED BY <2>1, <2>2
<1>7. RemoveAt(s, i) = a \o b
  BY DEF RemoveAt, a, b
<1> QED BY <1>4, <1>5, <1>6, <1>7

\* To insert at a place makes room there.
LEMMA InsertAtIs ==
    ASSUME NEW S, NEW s \in Seq(S), NEW e \in S, NEW i \in 1..Len(s) + 1
    PROVE  /\ InsertAt(s, i, e) \in Seq(S) /\ Len(InsertAt(s, i, e)) = Len(s) + 1
           /\ InsertAt(s, i, e)[i] = e
           /\ \A j \in 1..Len(s) : InsertAt(s, i, e)[IF j < i THEN j ELSE j + 1] = s[j]
<1> DEFINE a == SubSeq(s, 1, i - 1)
           b == SubSeq(s, i, Len(s))
           c == a \o <<e>>
<1>1. Len(s) \in Nat
  OBVIOUS
<1>2. /\ a \in Seq(S) /\ Len(a) = i - 1
      /\ \A j \in 1..(i - 1) : a[j] = s[j]
  <2>1. 1 \in 1..Len(s) + 1 /\ i - 1 \in 0..Len(s) /\ 1 <= i - 1 + 1
    BY <1>1
  <2>2. /\ a \in Seq(S) /\ Len(a) = i - 1 - 1 + 1
        /\ \A j \in 1..(i - 1 - 1 + 1) : a[j] = s[1 + j - 1]
    BY <2>1, PartIs
  <2> QED BY <1>1, <2>2
<1>3. /\ b \in Seq(S) /\ Len(b) = Len(s) - i + 1
      /\ \A j \in 1..(Len(s) - i + 1) : b[j] = s[i + j - 1]
  <2>1. Len(s) \in 0..Len(s) /\ i <= Len(s) + 1
    BY <1>1
  <2> QED BY <2>1, PartIs
<1> HIDE DEF a, b
<1>4. c \in Seq(S) /\ Len(c) = i /\ c[i] = e /\ \A j \in 1..(i - 1) : c[j] = s[j]
  <2>1. <<e>> \in Seq(S) /\ Len(<<e>>) = 1 /\ <<e>>[1] = e
    OBVIOUS
  <2>2. /\ c \in Seq(S) /\ Len(c) = Len(a) + 1
        /\ \A j \in 1..(Len(a) + 1) : c[j] = IF j <= Len(a) THEN a[j] ELSE <<e>>[j - Len(a)]
    BY <1>2, <2>1, ConcatProperties
  <2>3. Len(a) + 1 = i
    BY <1>1, <1>2
  <2>4. c[i] = <<e>>[i - Len(a)] /\ i - Len(a) = 1
    BY <1>1, <1>2, <2>2, <2>3
  <2>5. \A j \in 1..(i - 1) : c[j] = s[j]
    BY <1>1, <1>2, <2>2, <2>3
  <2> HIDE DEF c
  <2> QED BY <2>1, <2>2, <2>3, <2>4, <2>5
<1> HIDE DEF c
<1>5. /\ c \o b \in Seq(S) /\ Len(c \o b) = Len(c) + Len(b)
      /\ \A j \in 1..(Len(c) + Len(b)) : (c \o b)[j] = IF j <= Len(c) THEN c[j] ELSE b[j - Len(c)]
  BY <1>3, <1>4, ConcatProperties
<1>6. Len(c) + Len(b) = Len(s) + 1
  BY <1>1, <1>3, <1>4
<1>7. ASSUME NEW j \in 1..Len(s) PROVE (c \o b)[IF j < i THEN j ELSE j + 1] = s[j]
  <2>1. CASE j < i
    BY <1>1, <1>4, <1>5, <1>6, <2>1
  <2>2. CASE ~(j < i)
    <3>1. j + 1 - i \in 1..(Len(s) - i + 1) /\ i + (j + 1 - i) - 1 = j /\ j + 1 \in 1..Len(s) + 1
          /\ ~(j + 1 <= i)
      BY <1>1, <2>2
    <3>2. b[j + 1 - i] = s[i + (j + 1 - i) - 1]
      BY <1>3, <3>1
    <3> QED BY <1>4, <1>5, <1>6, <2>2, <3>1, <3>2
  <2> QED BY <2>1, <2>2
<1>8. (c \o b)[i] = e
  BY <1>1, <1>4, <1>5, <1>6
<1>9. InsertAt(s, i, e) = c \o b
  BY DEF InsertAt, a, b, c
<1> QED BY <1>5, <1>6, <1>7, <1>8, <1>9

LEMMA SetIs == ASSUME NEW S, NEW s \in Seq(S) PROVE ToSet(s) = {s[j] : j \in 1..Len(s)}
BY DEF ToSet

\* What is in a sequence with e at its end.
LEMMA AppendedSet ==
    ASSUME NEW S, NEW s \in Seq(S), NEW e \in S
    PROVE  ToSet(Append(s, e)) = ToSet(s) \cup {e}
<1> DEFINE a == Append(s, e)
<1>1. /\ a \in Seq(S) /\ Len(a) = Len(s) + 1 /\ a[Len(s) + 1] = e /\ Len(s) \in Nat
      /\ \A j \in 1..Len(s) : a[j] = s[j]
  BY AppendProperties
<1> HIDE DEF a
<1>2. ToSet(a) = {a[j] : j \in 1..Len(s) + 1} /\ ToSet(s) = {s[j] : j \in 1..Len(s)}
  BY <1>1, SetIs
<1>3. Len(s) + 1 \in 1..Len(s) + 1 /\ 1..Len(s) \subseteq 1..Len(s) + 1
      /\ \A j \in 1..Len(s) + 1 : j \in 1..Len(s) \/ j = Len(s) + 1
  BY <1>1
<1>4. ToSet(a) \subseteq ToSet(s) \cup {e}
  BY <1>1, <1>2, <1>3
<1>5. ToSet(s) \cup {e} \subseteq ToSet(a)
  BY <1>1, <1>2, <1>3
<1> QED BY <1>4, <1>5 DEF a

-----------------------------------------------------------------------------
(* The dispatch of sub-agents.                                             *)

\* A child that ended has a result, one that crashed returned nothing, and one that
\* is to stop because of its dispatch belongs to a dispatch that was cancelled.
KidOK(k, asked) ==
    /\ k.pc = "ended" => k.outcome # "none"
    /\ k.pc = "crashed" => k.outcome = "nothing"
    /\ k.pc = "cancelled" => k.stop = "no" \/ asked
    /\ k.stop = "cancel" => asked

\* How the dispatch f stands by its children.
FanoutOK(f) ==
    /\ \A i \in DOMAIN f.kids : KidOK(f.kids[i], f.asked)
    /\ f.pc = "gathering" => \A i \in DOMAIN f.kids : f.kids[i].pc \in {"queued", "running", "ended"}
    /\ f.pc = "returned" => \A i \in DOMAIN f.kids : f.kids[i].pc = "ended"
    /\ f.pc = "raised" =>
         \E i \in DOMAIN f.kids : \/ f.kids[i].pc = "crashed" /\ f.kids[i].outcome = "nothing"
                                  \/ f.kids[i].pc = "cancelled" /\ f.kids[i].stop = "no"
    /\ f.pc = "cancelled" => f.asked

DispatchInv ==
    /\ fanout \in Fanouts
    /\ FanoutOK(fanout)
    /\ handlers \subseteq roles \ forgotten

LEMMA DispatchInit == Init => DispatchInv
<1> SUFFICES ASSUME SubAgentsInit PROVE DispatchInv
  BY DEF Init
<1>1. NoFanout \in Fanouts /\ FanoutOK(NoFanout)
  BY DEF NoFanout, Fanouts, FanoutOK
<1> QED BY <1>1 DEF SubAgentsInit, DispatchInv

\* gather's callback keeps the balance, when child i, that was queued or running, has
\* become k.
LEMMA GatheredOK ==
    ASSUME NEW f \in Fanouts, FanoutOK(f), NEW i \in DOMAIN f.kids, NEW k \in Kids,
           KidOK(k, f.asked), f.kids[i].pc \in {"queued", "running"},
           NEW kids, DOMAIN kids = DOMAIN f.kids, kids[i] = k,
           \A j \in DOMAIN kids : j # i => kids[j] = f.kids[j],
           NEW pc,
           f.pc # "gathering" => pc = f.pc,
           f.pc = "gathering" /\ ~Over(k) => pc = "gathering",
           f.pc = "gathering" /\ k.pc = "crashed" => pc = "raised",
           f.pc = "gathering" /\ k.pc = "cancelled" =>
               pc = IF f.asked THEN "cancelled" ELSE "raised",
           f.pc = "gathering" /\ k.pc = "ended" =>
               pc = IF \A j \in DOMAIN kids : Over(kids[j])
                    THEN IF f.asked THEN "cancelled" ELSE "returned" ELSE "gathering"
    PROVE  FanoutOK([pc |-> pc, kids |-> kids, asked |-> f.asked])
<1> DEFINE g == [pc |-> pc, kids |-> kids, asked |-> f.asked]
<1>1. g.pc = pc /\ g.kids = kids /\ g.asked = f.asked /\ f.asked \in BOOLEAN
  BY DEF Fanouts
<1> HIDE DEF g
<1>2. k.pc \in {"queued", "running", "ended", "crashed", "cancelled"}
  BY DEF Kids
<1>3. \A j \in DOMAIN kids : KidOK(kids[j], f.asked)
  BY DEF FanoutOK
<1>4. CASE f.pc # "gathering" \/ ~Over(k)
  <2>1. pc = f.pc
    BY <1>4
  <2>2. f.pc = "gathering" => k.pc \in {"queued", "running"}
    BY <1>2, <1>4 DEF Over
  <2>3. f.pc # "returned"
    BY DEF FanoutOK
  <2>4. ASSUME f.pc = "raised"
        PROVE  \E j \in DOMAIN kids : \/ kids[j].pc = "crashed" /\ kids[j].outcome = "nothing"
                                      \/ kids[j].pc = "cancelled" /\ kids[j].stop = "no"
    <3>1. PICK j \in DOMAIN f.kids :
             \/ f.kids[j].pc = "crashed" /\ f.kids[j].outcome = "nothing"
             \/ f.kids[j].pc = "cancelled" /\ f.kids[j].stop = "no"
      BY <2>4 DEF FanoutOK
    <3>2. j # i
      BY <3>1
    <3> QED BY <3>1, <3>2
  <2>5. f.pc = "gathering" => \A j \in DOMAIN kids : kids[j].pc \in {"queued", "running", "ended"}
    BY <2>2 DEF FanoutOK
  <2>6. f.pc = "cancelled" => f.asked
    BY DEF FanoutOK
  <2>7. FanoutOK(g)
    BY <1>1, <1>3, <2>1, <2>3, <2>4, <2>5, <2>6 DEF FanoutOK
  <2> QED BY <2>7 DEF g
<1>5. CASE f.pc = "gathering" /\ k.pc = "crashed"
  <2>1. kids[i].pc = "crashed" /\ kids[i].outcome = "nothing" /\ pc = "raised"
    BY <1>5 DEF KidOK
  <2>2. FanoutOK(g)
    BY <1>1, <1>3, <2>1 DEF FanoutOK
  <2> QED BY <2>2 DEF g
<1>6. CASE f.pc = "gathering" /\ k.pc = "cancelled"
  <2>1. kids[i].pc = "cancelled" /\ (f.asked \/ kids[i].stop = "no")
    BY <1>6 DEF KidOK
  <2>2. pc = IF f.asked THEN "cancelled" ELSE "raised"
    BY <1>6
  <2>3. FanoutOK(g)
    BY <1>1, <1>3, <2>1, <2>2 DEF FanoutOK
  <2> QED BY <2>3 DEF g
<1>7. CASE f.pc = "gathering" /\ k.pc = "ended"
  <2>1. \A j \in DOMAIN kids : kids[j].pc \in {"queued", "running", "ended"}
    BY <1>7 DEF FanoutOK
  <2>2. CASE ~ \A j \in DOMAIN kids : Over(kids[j])
    <3>1. pc = "gathering"
      BY <1>7, <2>2
    <3>2. FanoutOK(g)
      BY <1>1, <1>3, <2>1, <3>1 DEF FanoutOK
    <3> QED BY <3>2 DEF g
  <2>3. CASE \A j \in DOMAIN kids : Over(kids[j])
    <3>1. pc = IF f.asked THEN "cancelled" ELSE "returned"
      BY <1>7, <2>3
    <3>2. \A j \in DOMAIN kids : kids[j].pc = "ended"
      BY <2>1, <2>3 DEF Over
    <3>3. FanoutOK(g)
      BY <1>1, <1>3, <3>1, <3>2 DEF FanoutOK
    <3> QED BY <3>3 DEF g
  <2> QED BY <2>2, <2>3
<1> QED BY <1>2, <1>4, <1>5, <1>6, <1>7 DEF Over

LEMMA GathersKeeps ==
    ASSUME DispatchInv, NEW i \in DOMAIN fanout.kids, NEW k \in Kids, KidOK(k, fanout.asked),
           Kid(i).pc \in {"queued", "running"}, Gathers(i, k)
    PROVE  DispatchInv'
<1> DEFINE kids == [fanout.kids EXCEPT ![i] = k]
           all == \A j \in DOMAIN kids : Over(kids[j])
           over == CASE k.pc = "crashed" -> "raised"
                     [] k.pc = "cancelled" -> IF fanout.asked THEN "cancelled" ELSE "raised"
                     [] k.pc = "ended" /\ all -> IF fanout.asked THEN "cancelled" ELSE "returned"
                     [] OTHER -> "gathering"
           pc == IF fanout.pc # "gathering" THEN fanout.pc ELSE over
<1>0. fanout \in Fanouts /\ FanoutOK(fanout) /\ handlers \subseteq roles \ forgotten
  BY DEF DispatchInv
<1>1. fanout.kids \in Seq(Kids) /\ i \in 1..Len(fanout.kids)
  BY <1>0 DEF Fanouts
<1>2. /\ kids \in Seq(Kids) /\ DOMAIN kids = DOMAIN fanout.kids
      /\ kids[i] = k /\ \A j \in DOMAIN kids : j # i => kids[j] = fanout.kids[j]
  BY <1>1
<1>3. fanout' = [fanout EXCEPT !.kids = kids, !.pc = pc]
  BY DEF Gathers
<1>4. UNCHANGED <<roles, handlers, forgotten>>
  BY DEF Gathers
<1>5. all = \A j \in DOMAIN kids : Over(kids[j])
  OBVIOUS
<1> HIDE DEF kids, all
<1>6. k.pc \in {"queued", "running", "ended", "crashed", "cancelled"}
  BY DEF Kids
<1>7. /\ fanout.pc # "gathering" => pc = fanout.pc
      /\ fanout.pc = "gathering" /\ ~Over(k) => pc = "gathering"
      /\ fanout.pc = "gathering" /\ k.pc = "crashed" => pc = "raised"
      /\ fanout.pc = "gathering" /\ k.pc = "cancelled" =>
           pc = IF fanout.asked THEN "cancelled" ELSE "raised"
      /\ fanout.pc = "gathering" /\ k.pc = "ended" =>
           pc = IF all THEN IF fanout.asked THEN "cancelled" ELSE "returned" ELSE "gathering"
  <2>1. CASE fanout.pc # "gathering"
    BY <2>1
  <2>2. CASE fanout.pc = "gathering"
    <3>1. pc = over
      BY <2>2
    <3>2. ~Over(k) => over = "gathering"
      BY <1>6 DEF Over
    <3>3. k.pc = "crashed" => over = "raised"
      OBVIOUS
    <3>4. k.pc = "cancelled" => over = IF fanout.asked THEN "cancelled" ELSE "raised"
      OBVIOUS
    <3>5. k.pc = "ended" /\ all => over = IF fanout.asked THEN "cancelled" ELSE "returned"
      OBVIOUS
    <3>6. k.pc = "ended" /\ ~all => over = "gathering"
      OBVIOUS
    <3> HIDE DEF pc, over
    <3> QED BY <2>2, <3>1, <3>2, <3>3, <3>4, <3>5, <3>6
  <2> QED BY <2>1, <2>2
<1>8. pc \in {"idle", "gathering", "returned", "raised", "cancelled"}
  <2>1. fanout.pc \in {"idle", "gathering", "returned", "raised", "cancelled"}
    BY <1>0 DEF Fanouts
  <2> HIDE DEF pc
  <2> QED BY <1>6, <1>7, <2>1 DEF Over
<1> HIDE DEF pc
<1>9. fanout' = [pc |-> pc, kids |-> kids, asked |-> fanout.asked]
  BY <1>0, <1>3 DEF Fanouts
<1>10. fanout' \in Fanouts
  BY <1>0, <1>2, <1>8, <1>9 DEF Fanouts
<1>11. FanoutOK(fanout')
  BY <1>0, <1>2, <1>5, <1>7, <1>9, GatheredOK DEF Kid
<1> QED BY <1>0, <1>4, <1>10, <1>11 DEF DispatchInv

\* What a handler, a timeout or a child's start makes of child i.
LEMMA KidStep ==
    ASSUME DispatchInv, NEW i \in 1..MaxRequests,
           \/ StartKid(i) \/ HandlerReturns(i) \/ HandlerRaises(i) \/ HandlerReturnsNone(i)
           \/ HandlerCancels(i) \/ Expire(i) \/ HandlerStops(i)
    PROVE  DispatchInv'
<1>1. /\ i \in DOMAIN fanout.kids /\ fanout.kids \in Seq(Kids)
      /\ Kid(i).pc \in {"queued", "running"} /\ fanout.asked \in BOOLEAN
  BY DEF StartKid, HandlerReturns, HandlerRaises, HandlerReturnsNone, HandlerCancels, Expire,
         HandlerStops, IsKid, DispatchInv, Fanouts
<1>2. Kid(i) \in Kids /\ KidOK(Kid(i), fanout.asked)
  BY <1>1 DEF Kid, DispatchInv, FanoutOK
<1>3. ASSUME NEW o \in Outcomes \ {"none"}, Ends(i, o) PROVE DispatchInv'
  <2> DEFINE k == [NewKid(Kid(i).role) EXCEPT !.pc = "ended", !.outcome = o]
  <2>1. k \in Kids /\ KidOK(k, fanout.asked)
    BY <1>2 DEF Kids, NewKid, KidOK
  <2>2. Gathers(i, k)
    BY <1>3 DEF Ends
  <2> HIDE DEF k
  <2> QED BY <1>1, <2>1, <2>2, GathersKeeps
<1>4. ASSUME Kid(i).stop = "no" \/ fanout.asked,
             Gathers(i, [Kid(i) EXCEPT !.pc = "cancelled", !.handler = "none"])
      PROVE  DispatchInv'
  <2> DEFINE k == [Kid(i) EXCEPT !.pc = "cancelled", !.handler = "none"]
  <2>1. k \in Kids /\ KidOK(k, fanout.asked)
    BY <1>2, <1>4 DEF Kids, KidOK
  <2> HIDE DEF k
  <2> QED BY <1>1, <1>4, <2>1, GathersKeeps DEF k
<1>5. CASE StartKid(i)
  <2> DEFINE k == [Kid(i) EXCEPT !.pc = "running",
                         !.handler = IF Kid(i).role \in handlers THEN "own" ELSE "default"]
  <2>1. CASE Kid(i).stop = "cancel"
    BY <1>2, <1>4, <1>5, <2>1 DEF StartKid, KidOK
  <2>2. CASE Kid(i).stop # "cancel" /\ Kid(i).role \notin roles
    BY <1>3, <1>5, <2>2 DEF StartKid, Outcomes
  <2>3. CASE Kid(i).stop # "cancel" /\ Kid(i).role \in roles
    <3>1. k \in Kids /\ KidOK(k, fanout.asked)
      BY <1>2, <2>3 DEF Kids, KidOK
    <3>2. Gathers(i, k)
      BY <1>5, <2>3 DEF StartKid
    <3> HIDE DEF k
    <3> QED BY <1>1, <3>1, <3>2, GathersKeeps
  <2> QED BY <2>1, <2>2, <2>3
<1>6. CASE HandlerReturns(i)
  BY <1>3, <1>6 DEF HandlerReturns, Outcomes
<1>7. CASE HandlerRaises(i)
  BY <1>3, <1>7 DEF HandlerRaises, Outcomes
<1>8. CASE HandlerReturnsNone(i)
  <2> DEFINE k == [Kid(i) EXCEPT !.pc = "crashed", !.outcome = "nothing"]
  <2>1. k \in Kids /\ KidOK(k, fanout.asked)
    BY <1>2 DEF Kids, KidOK, Outcomes
  <2>2. Gathers(i, k)
    BY <1>8 DEF HandlerReturnsNone
  <2> HIDE DEF k
  <2> QED BY <1>1, <2>1, <2>2, GathersKeeps
<1>9. CASE HandlerCancels(i)
  BY <1>4, <1>9 DEF HandlerCancels
<1>10. CASE Expire(i)
  <2> DEFINE k == [Kid(i) EXCEPT !.stop = "timeout"]
  <2>1. k \in Kids /\ KidOK(k, fanout.asked)
    BY <1>2, <1>10 DEF Kids, KidOK, Expire, IsKid
  <2>2. Gathers(i, k)
    BY <1>10 DEF Expire
  <2> HIDE DEF k
  <2> QED BY <1>1, <2>1, <2>2, GathersKeeps
<1>11. CASE HandlerStops(i)
  <2>1. CASE Kid(i).stop = "timeout"
    BY <1>3, <1>11, <2>1 DEF HandlerStops, Outcomes
  <2>2. CASE Kid(i).stop = "cancel"
    BY <1>2, <1>4, <1>11, <2>2 DEF HandlerStops, KidOK
  <2>3. Kid(i).stop \in {"timeout", "cancel"}
    BY <1>2, <1>11 DEF HandlerStops, Kids
  <2> QED BY <2>1, <2>2, <2>3
<1> QED BY <1>5, <1>6, <1>7, <1>8, <1>9, <1>10, <1>11

LEMMA DispatchStep == DispatchInv /\ [Next]_vars => DispatchInv'
<1> SUFFICES ASSUME DispatchInv, [Next]_vars PROVE DispatchInv'
  OBVIOUS
<1>0. fanout \in Fanouts /\ FanoutOK(fanout)
  BY DEF DispatchInv
<1>1. ASSUME UNCHANGED subAgentsVars PROVE DispatchInv'
  BY <1>1 DEF subAgentsVars, DispatchInv
<1>2. ASSUME NEW r \in Roles, UnregisterRole(r) \/ \E own \in BOOLEAN : RegisterRole(r, own)
      PROVE  DispatchInv'
  BY <1>2 DEF UnregisterRole, RegisterRole, DispatchInv
<1>3. ASSUME NEW rs \in Requests, Dispatch(rs) PROVE DispatchInv'
  <2> DEFINE kids == [j \in DOMAIN rs |-> NewKid(rs[j])]
  <2>1. PICK n \in Nat : rs \in [1..n -> Roles]
    BY SubAgentsAssumption DEF Requests, SeqOf
  <2>2. \A j \in DOMAIN rs : NewKid(rs[j]) \in Kids /\ KidOK(NewKid(rs[j]), FALSE)
                                /\ NewKid(rs[j]).pc = "queued"
    BY <2>1 DEF NewKid, Kids, KidOK, Outcomes
  <2>3. kids \in Seq(Kids)
    <3>1. kids \in [1..n -> Kids]
      BY <2>1, <2>2
    <3> QED BY <3>1
  <2>4. \A j \in DOMAIN kids : KidOK(kids[j], FALSE) /\ kids[j].pc = "queued"
    BY <2>2
  <2>5. fanout' = [pc |-> IF rs = << >> THEN "returned" ELSE "gathering", asked |-> FALSE, kids |-> kids]
    BY <1>3 DEF Dispatch
  <2>6. rs = << >> => DOMAIN kids = {}
    BY <2>1
  <2> HIDE DEF kids
  <2>7. fanout' \in Fanouts
    BY <2>3, <2>5 DEF Fanouts
  <2>8. FanoutOK(fanout')
    BY <2>4, <2>5, <2>6 DEF FanoutOK
  <2> QED BY <1>3, <2>7, <2>8 DEF Dispatch, DispatchInv
<1>4. CASE CancelDispatch
  <2> DEFINE kids == [j \in DOMAIN fanout.kids |-> IF Over(fanout.kids[j]) THEN fanout.kids[j]
                                                 ELSE [fanout.kids[j] EXCEPT !.stop = "cancel"]]
  <2>1. fanout' = [pc |-> "gathering", kids |-> kids, asked |-> TRUE]
    BY <1>0, <1>4 DEF CancelDispatch, Fanouts
  <2>2. ASSUME NEW j \in DOMAIN fanout.kids
        PROVE  /\ kids[j] \in Kids /\ KidOK(kids[j], TRUE)
               /\ kids[j].pc \in {"queued", "running", "ended"}
    <3> DEFINE k == fanout.kids[j]
    <3>1. k \in Kids /\ KidOK(k, fanout.asked) /\ k.pc \in {"queued", "running", "ended"}
      BY <1>0, <1>4 DEF Fanouts, FanoutOK, CancelDispatch
    <3> QED BY <3>1 DEF Kids, KidOK, Over
  <2>3. kids \in Seq(Kids)
    <3>1. fanout.kids \in Seq(Kids)
      BY <1>0 DEF Fanouts
    <3>2. Len(fanout.kids) \in Nat /\ DOMAIN fanout.kids = 1..Len(fanout.kids)
      BY <3>1
    <3>3. kids = [j \in 1..Len(fanout.kids) |-> kids[j]]
      BY <3>2
    <3>4. \A j \in 1..Len(fanout.kids) : kids[j] \in Kids
      BY <2>2, <3>2
    <3> HIDE DEF kids
    <3> QED BY <3>2, <3>3, <3>4
  <2>4. \A j \in DOMAIN kids : KidOK(kids[j], TRUE) /\ kids[j].pc \in {"queued", "running", "ended"}
    BY <2>2
  <2> HIDE DEF kids
  <2>5. fanout' \in Fanouts /\ FanoutOK(fanout')
    BY <2>1, <2>3, <2>4 DEF Fanouts, FanoutOK
  <2> QED BY <1>4, <2>5 DEF CancelDispatch, DispatchInv
<1>5. CASE Returns
  <2>1. NoFanout \in Fanouts /\ FanoutOK(NoFanout)
    BY DEF NoFanout, Fanouts, FanoutOK
  <2> QED BY <1>5, <2>1 DEF Returns, DispatchInv
<1>6. CASE SubAgentsNext
  BY <1>2, <1>3, <1>4, <1>5, <1>6, KidStep DEF SubAgentsNext
<1> QED BY <1>1, <1>6 DEF Next, vars

\* A dispatch contains the failures of its sub-agents, for any roles, requests and
\* handlers: it raises only when a handler returned nothing or was cancelled from within,
\* cancels its children only when it is cancelled itself, returns when all have ended, and
\* a role that was unregistered never comes back with its old handler.
THEOREM AlwaysDispatchContained == Spec => []DispatchContained
<1>1. DispatchInv => DispatchContained
  <2> SUFFICES ASSUME DispatchInv PROVE DispatchContained
    OBVIOUS
  <2>1. FanoutOK(fanout) /\ handlers \subseteq roles \ forgotten
    BY DEF DispatchInv
  <2>2. ToSet(fanout.kids) = {fanout.kids[i] : i \in DOMAIN fanout.kids}
    BY DEF ToSet
  <2> QED BY <2>1, <2>2 DEF DispatchContained, FanoutOK, KidOK
<1> QED BY <1>1, DispatchInit, DispatchStep, PTL DEF Spec

-----------------------------------------------------------------------------
(* The parts.                                                              *)

\* Action: the step is one of part p, or leaves what the parts share.
StepOf(p) ==
    /\ part' = part /\ adapter' = adapter
    /\ busy' = busy \/ \E t \in Threads : busy' = busy \cup {t} \/ busy' = busy \ {t}
    /\ calls' = calls \/ (calls < MaxCalls[part] /\ calls' = calls + 1)
    /\ part = p \/ UNCHANGED sharedVars

\* The parts share nothing: a step of one happens only when it is the part that is looked
\* at, or moves no thread (as the ticks of the clock).
LEMMA OnlyOnePart ==
    /\ CacheNext => StepOf("cache")
    /\ KnowledgeNext => StepOf("knowledge")
    /\ ServersNext => StepOf("servers")
    /\ SubAgentsNext => StepOf("subagents")
    /\ FlaskNext => StepOf("stream")
<1>1. ASSUME NEW p, UNCHANGED sharedVars
      PROVE  StepOf(p)
  BY <1>1 DEF sharedVars, StepOf
<1>2. ASSUME NEW t \in Threads, NEW p, AtOnce(t, p) \/ Enter(t, p) \/ (part = p /\ Leave(t))
      PROVE  StepOf(p)
  BY <1>2 DEF AtOnce, Enter, MayCall, Leave, StepOf
<1>3. ASSUME NEW p, part = p, calls < MaxCalls[p], calls' = calls + 1, UNCHANGED <<part, adapter, busy>>
      PROVE  StepOf(p)
  BY <1>3 DEF StepOf
<1>4. ASSUME CacheNext PROVE StepOf("cache")
  <2>1. ASSUME NEW t \in Threads, NEW d, NEW q, NEW ttl,
               \/ GetScenarioCache(t, q) \/ Query(t, d, q) \/ Put(t, d, q, ttl) \/ PutUser(t, d, q)
               \/ SetLevel3(t, q) \/ Clear(t, d) \/ ClearScenario(t) \/ ClearExpired(t)
        PROVE  StepOf("cache")
    BY <1>2, <2>1 DEF GetScenarioCache, Query, Put, PutUser, SetLevel3, Clear, ClearScenario,
                      ClearExpired, Begin
  <2>2. ASSUME NEW t \in Threads, Fail(t) \/ Serve(t) \/ Finish(t)
        PROVE  StepOf("cache")
    BY <1>2, <2>2 DEF Fail, Serve, Finish, Done, InCache
  <2>3. ASSUME NEW t \in Threads, NEW K,
               \/ StoreUser(t, K) \/ LookUser(t) \/ FindUser(t) \/ PickScenario(t, K) \/ Scan(t) \/ ListExpired(t) \/ ListKeys(t) \/ EvictOldest(t)
               \/ Drop(t) \/ Dropped(t) \/ Unlist(t) \/ Look(t) \/ Stale(t) \/ ListUsers(t)
        PROVE  StepOf("cache")
    BY <1>1, <2>3 DEF StoreUser, LookUser, FindUser, PickScenario, Scan, ListUsers, ListExpired,
                      ListKeys, EvictOldest, Drop, Dropped, Unlist, Look, Stale
  <2>4. Tick \/ SetBack => StepOf("cache")
    BY <1>1 DEF Tick, SetBack
  <2> QED BY <1>4, <2>1, <2>2, <2>3, <2>4 DEF CacheNext
<1>5. ASSUME KnowledgeNext PROVE StepOf("knowledge")
  <2>1. ASSUME NEW t \in Threads, NEW q, Search(t, q) \/ Add(t, q) \/ Delete(t, q)
        PROVE  StepOf("knowledge")
    <3>1. GoesOn(t) => StepOf("knowledge")
      BY DEF GoesOn, Within, StepOf
    <3> QED BY <1>2, <2>1, <3>1 DEF Search, Add, Delete
  <2>2. ASSUME NEW t \in Threads, Found(t) \/ MarkDirty(t)
        PROVE  StepOf("knowledge")
    BY <1>2, <2>2 DEF Found, MarkDirty, Final, Raises, Within
  <2>3. ASSUME NEW t \in Threads,
               \/ Exact(t) \/ ToIndex(t) \/ ClearIndex(t) \/ TakeNext(t) \/ IndexOne(t)
               \/ LoopEnds(t) \/ Rebuilt(t) \/ Score(t)
        PROVE  StepOf("knowledge")
    BY <1>1, <2>3 DEF Exact, ToIndex, ClearIndex, TakeNext, IndexOne, LoopEnds, Rebuilt, Score
  <2> QED BY <1>5, <2>1, <2>2, <2>3 DEF KnowledgeNext
<1>6. ASSUME ServersNext PROVE StepOf("servers")
  <2>1. ASSUME NEW c, NEW n, NEW starts, Connect(c, n, starts) \/ RegisterTool(n) \/ Unregister(n)
        PROVE  StepOf("servers")
    BY <1>3, <2>1 DEF Connect, RegisterTool, Unregister, MayStart, InServers
  <2>2. ASSUME NEW c, NEW pc, NEW open, NEW why, Moves(c, pc, open, why)
        PROVE  StepOf("servers")
    BY <1>1, <2>2 DEF Moves
  <2>3. ASSUME NEW c, NEW R,
               \/ Shaken(c) \/ HandshakeFails(c) \/ ListFails(c) \/ ListCancelled(c)
               \/ ClosedAfterList(c) \/ CloseAfterListFails(c) \/ Malformed(c, R)
        PROVE  StepOf("servers")
    BY <2>2, <2>3 DEF Shaken, HandshakeFails, ListFails, ListCancelled, ClosedAfterList,
                      CloseAfterListFails, Malformed
  <2>4. ASSUME NEW c, NEW R, Listed(c, R)
        PROVE  StepOf("servers")
    BY <1>1, <2>4 DEF Listed
  <2>5. ASSUME NEW t \in Threads, NEW isOpen, NEW F, NextClient(t, isOpen, F), part = "servers"
        PROVE  StepOf("servers")
    <3>1. Leave(t) \/ UNCHANGED sharedVars
      BY <2>5 DEF NextClient
    <3> QED BY <1>1, <1>2, <2>5, <3>1
  <2>6. ASSUME NEW t \in Threads, Shutdown(t) \/ ShutdownOfNone(t)
        PROVE  StepOf("servers")
    BY <1>2, <2>6 DEF Shutdown, ShutdownOfNone
  <2>7. ASSUME NEW t \in Threads, Stopped(t) \/ Closed(t) \/ CloseFails(t) \/ ShutdownCancelled(t)
        PROVE  StepOf("servers")
    <3>1. part = "servers"
      BY <2>7 DEF Stopped, Closed, CloseFails, ShutdownCancelled, Closing, InServers
    <3> QED BY <1>1, <1>2, <2>5, <2>7, <3>1 DEF Stopped, Closed, CloseFails, ShutdownCancelled
  <2>8. ASSUME NEW c \in Clients,
               \/ \E n \in Servers, starts \in BOOLEAN : Connect(c, n, starts)
               \/ Shaken(c) \/ HandshakeFails(c)
               \/ ListFails(c) \/ ListCancelled(c) \/ ClosedAfterList(c) \/ CloseAfterListFails(c)
               \/ \E R \in Descriptors : Listed(c, R) \/ Malformed(c, R)
        PROVE  StepOf("servers")
    BY <2>1, <2>3, <2>4, <2>8
  <2> QED BY <1>6, <2>1, <2>6, <2>7, <2>8 DEF ServersNext
<1>7. ASSUME SubAgentsNext PROVE StepOf("subagents")
  <2>1. ASSUME NEW r, NEW own, UnregisterRole(r) \/ RegisterRole(r, own) \/ Dispatch(r)
        PROVE  StepOf("subagents")
    BY <1>3, <2>1 DEF UnregisterRole, RegisterRole, Dispatch, MayChange, InSubAgents, Counted
  <2>2. CancelDispatch \/ Returns => StepOf("subagents")
    BY <1>1 DEF CancelDispatch, Returns
  <2>3. ASSUME NEW i, NEW k, Gathers(i, k)
        PROVE  StepOf("subagents")
    BY <1>1, <2>3 DEF Gathers
  <2>4. ASSUME NEW i \in 1..MaxRequests,
               \/ StartKid(i) \/ HandlerReturns(i) \/ HandlerRaises(i) \/ HandlerReturnsNone(i)
               \/ HandlerCancels(i) \/ Expire(i) \/ HandlerStops(i)
        PROVE  StepOf("subagents")
    BY <2>3, <2>4 DEF StartKid, HandlerReturns, HandlerRaises, HandlerReturnsNone,
                      HandlerCancels, Expire, HandlerStops, Ends
  <2> QED BY <1>7, <2>1, <2>2, <2>4 DEF SubAgentsNext
<1>8. ASSUME FlaskNext PROVE StepOf("stream")
  <2>1. SendEvent => StepOf("stream")
    BY <1>3 DEF SendEvent
  <2>2. RunPuts \/ RunFindsFull \/ RunWaits \/ SendRefused \/ SendTimesOut \/ RunFails \/ Rejected
          => StepOf("stream")
    BY <1>1 DEF RunPuts, RunFindsFull, RunWaits, SendRefused, SendTimesOut, RunFails, Rejected
  <2>3. FinishStream \/ Receive \/ FindsEmpty \/ GeneratorWaits \/ Broken \/ Heartbeat \/ ClientGone
          => StepOf("stream")
    BY <1>1 DEF FinishStream, Receive, FindsEmpty, GeneratorWaits, Broken, Heartbeat, ClientGone
  <2> QED BY <1>8, <2>1, <2>2, <2>3 DEF FlaskNext
<1> QED BY <1>4, <1>5, <1>6, <1>7, <1>8

-----------------------------------------------------------------------------
(* The stream of a run that has a thread of its own.                       *)

\* All that the run put and nobody dropped, what the client received first.
Sent == got \o queue

FlaskTyped ==
    /\ queue \in Seq(Int) /\ got \in Seq(Int)
    /\ owner \in {"none", "run", "generator"}
    /\ sender \in Senders
    /\ reader \in {"asks", "bind", "waits", "ended", "broken", "gone"}
    /\ filled \in BOOLEAN
    /\ part = "stream" => calls \in Nat

NoStream ==
    part # "stream" => /\ queue = << >> /\ got = << >> /\ owner = "none" /\ sender = NoRun
                       /\ reader = "asks" /\ filled = FALSE

\* The events in S stand at their number, the error event of the run follows them, and
\* the end is the last of all; s is the run.
InPlace(S, s) ==
    \A i \in 1..Len(S) :
       \/ S[i] = i
       \/ /\ S[i] = ErrorEvent /\ s.failing /\ s.pc \in {"finish", "ended"}
          /\ i = Len(S) \/ (i = Len(S) - 1 /\ S[Len(S)] = End)
       \/ S[i] = End /\ i = Len(S) /\ s.end = "finished"

\* How many of the n events sent are in S: all but the one in hand, unless the stream was
\* closed; if no put found the queue full, the run that fails has lost none.
UpToDate(S, s, n, full) ==
    /\ s.pc = "runs" => ~s.failing /\ (~s.closed => Len(S) = n)
    /\ s.pc \in {"put", "bind", "wait"} /\ ~s.failing => ~s.closed /\ Len(S) = n - 1
    /\ s.pc = "put" /\ s.failing /\ ~full => Len(S) = n
    /\ s.pc = "finish" /\ ~full => s.failing /\ Len(S) = n + 1 /\ S[n + 1] = ErrorEvent

\* A run that finished, and never found the queue full, has sent everything.
Whole(S, s, n, full) ==
    s.end = "finished" /\ ~full =>
       /\ n <= Len(S) /\ \A i \in 1..n : S[i] = i
       /\ s.failing => n + 1 <= Len(S) /\ S[n + 1] = ErrorEvent

\* The queue belongs to the loop that waits in it, and only a full queue lets the run wait.
Bound ==
    /\ sender.pc = "wait" => owner = "run"
    /\ reader = "waits" => owner = "generator"
    /\ sender.pc \in {"bind", "wait"} \/ sender.closed \/ sender.end = "refused"
         \/ owner = "run" \/ reader = "broken" => filled
    /\ sender.end # "none" <=> sender.pc = "ended"

\* The client has not read the end, unless its stream has ended.
EndKept ==
    /\ \A i \in DOMAIN got : got[i] # End
    /\ EndIsLast
    /\ ~filled /\ sender.end = "finished" /\ reader \in {"asks", "bind", "waits"} =>
          queue # << >> /\ queue[Len(queue)] = End

FlaskInv ==
    /\ FlaskTyped /\ NoStream /\ Bound /\ EndKept
    /\ InPlace(Sent, sender)
    /\ part = "stream" => UpToDate(Sent, sender, calls, filled)
    /\ Whole(Sent, sender, calls, filled)

LEMMA FlaskInitially == Init => FlaskInv
<1> SUFFICES ASSUME SharedInit, FlaskInit PROVE FlaskInv
  BY DEF Init
<1>1. Sent = << >> /\ Len(Sent) = 0
  BY DEF Sent, FlaskInit
<1>2. queue = << >> /\ got = << >> /\ calls = 0 /\ sender = NoRun /\ owner = "none"
      /\ reader = "asks" /\ filled = FALSE
  BY DEF FlaskInit, SharedInit
<1> HIDE DEF Sent
<1>3. FlaskTyped
  <2>1. queue \in Seq(Int) /\ got \in Seq(Int)
    BY <1>2
  <2>2. sender \in Senders
    BY <1>2 DEF Senders, NoRun
  <2> QED BY <1>2, <2>1, <2>2 DEF FlaskTyped
<1>4. NoStream /\ Bound
  BY <1>2 DEF NoStream, Bound, NoRun
<1>5. EndKept
  BY <1>2 DEF EndKept, EndIsLast, NoRun
<1>6. InPlace(Sent, sender) /\ UpToDate(Sent, sender, calls, filled) /\ Whole(Sent, sender, calls, filled)
  BY <1>1, <1>2 DEF InPlace, UpToDate, Whole, NoRun
<1> QED BY <1>3, <1>4, <1>5, <1>6 DEF FlaskInv

\* Steps that leave the queue and the received alone.
LEMMA FlaskQuiet ==
    ASSUME FlaskInv,
           \/ SendEvent \/ RunFindsFull \/ RunWaits \/ SendRefused \/ SendTimesOut
           \/ RunFails \/ Rejected \/ FindsEmpty \/ GeneratorWaits \/ Broken \/ Heartbeat \/ ClientGone
    PROVE  FlaskInv'
<1>1. /\ queue' = queue /\ got' = got /\ part' = part
      /\ calls' = calls \/ (part = "stream" /\ sender.pc = "runs" /\ calls' = calls + 1)
  BY DEF SendEvent, RunFindsFull, RunWaits, SendRefused, SendTimesOut, RunFails, Rejected,
         FindsEmpty, GeneratorWaits, Broken, Heartbeat, ClientGone, sharedVars
<1>2. Sent' = Sent /\ Sent \in Seq(Int)
  BY <1>1 DEF Sent, FlaskInv, FlaskTyped
<1> DEFINE S == Sent
<1>3. S' = S /\ S \in Seq(Int) /\ Len(S) \in Nat
  BY <1>2
<1>4. /\ FlaskTyped /\ NoStream /\ Bound /\ EndKept /\ InPlace(S, sender)
      /\ part = "stream" => UpToDate(S, sender, calls, filled)
      /\ Whole(S, sender, calls, filled)
  BY DEF FlaskInv
<1> HIDE DEF S
<1> SUFFICES /\ FlaskTyped' /\ NoStream' /\ Bound' /\ EndKept' /\ InPlace(S, sender')
             /\ part = "stream" => UpToDate(S, sender', calls', filled')
             /\ Whole(S, sender', calls', filled')
  BY <1>1, <1>3 DEF FlaskInv, S, InPlace, UpToDate, Whole
<1>5. CASE SendEvent
  <2>1. FlaskTyped'
    BY <1>1, <1>4, <1>5 DEF SendEvent, FlaskTyped, Senders, sharedVars
  <2>2. NoStream' /\ Bound' /\ EndKept'
    BY <1>1, <1>4, <1>5 DEF SendEvent, FlaskTyped, NoStream, Bound, EndKept, EndIsLast, Senders, NoRun, sharedVars
  <2>3. InPlace(S, sender')
    BY <1>3, <1>4, <1>5 DEF SendEvent, FlaskTyped, InPlace, Senders
  <2>4. UpToDate(S, sender', calls', filled') /\ Whole(S, sender', calls', filled')
    BY <1>1, <1>3, <1>4, <1>5 DEF SendEvent, FlaskTyped, NoStream, Bound, UpToDate, Whole, Senders, NoRun, sharedVars
  <2> QED BY <2>1, <2>2, <2>3, <2>4
<1>6. CASE RunFindsFull
  <2>1. FlaskTyped'
    BY <1>1, <1>4, <1>6 DEF RunFindsFull, FlaskTyped, Senders, sharedVars
  <2>2. NoStream' /\ Bound' /\ EndKept'
    BY <1>1, <1>4, <1>6 DEF RunFindsFull, FlaskTyped, NoStream, Bound, EndKept, EndIsLast, Senders, NoRun, sharedVars
  <2>3. InPlace(S, sender')
    BY <1>3, <1>4, <1>6 DEF RunFindsFull, FlaskTyped, InPlace, Senders
  <2>4. UpToDate(S, sender', calls', filled') /\ Whole(S, sender', calls', filled')
    BY <1>1, <1>3, <1>4, <1>6 DEF RunFindsFull, FlaskTyped, NoStream, Bound, UpToDate, Whole, Senders, NoRun, sharedVars
  <2> QED BY <2>1, <2>2, <2>3, <2>4
<1>7. CASE RunWaits
  BY <1>1, <1>3, <1>4, <1>7 DEF RunWaits, FlaskTyped, NoStream, Bound, EndKept, InPlace, UpToDate,
     Whole, EndIsLast, Senders, NoRun, sharedVars
<1>8. CASE SendRefused
  BY <1>1, <1>3, <1>4, <1>8 DEF SendRefused, FlaskTyped, NoStream, Bound, EndKept, InPlace, UpToDate,
     Whole, EndIsLast, Senders, NoRun, sharedVars
<1>9. CASE SendTimesOut
  BY <1>1, <1>3, <1>4, <1>9 DEF SendTimesOut, NextPc, FlaskTyped, NoStream, Bound, EndKept, InPlace,
     UpToDate, Whole, EndIsLast, Senders, NoRun, sharedVars
<1>10. CASE RunFails
  BY <1>1, <1>3, <1>4, <1>10 DEF RunFails, FlaskTyped, NoStream, Bound, EndKept, InPlace,
     UpToDate, Whole, EndIsLast, Senders, NoRun, sharedVars
<1>11. CASE Rejected
  BY <1>1, <1>3, <1>4, <1>11 DEF Rejected, FlaskTyped, NoStream, Bound, EndKept, InPlace,
     UpToDate, Whole, EndIsLast, Senders, NoRun, sharedVars
<1>12. CASE FindsEmpty \/ GeneratorWaits \/ Broken \/ Heartbeat \/ ClientGone
  <2>1. sender' = sender /\ filled' = filled /\ calls' = calls
    BY <1>12 DEF FindsEmpty, GeneratorWaits, Broken, Heartbeat, ClientGone, sharedVars
  <2> QED BY <1>1, <1>3, <1>4, <1>12, <2>1 DEF FindsEmpty, GeneratorWaits, Broken, Heartbeat,
        ClientGone, FlaskTyped, NoStream, Bound, EndKept, EndIsLast, NoRun
<1> QED BY <1>5, <1>6, <1>7, <1>8, <1>9, <1>10, <1>11, <1>12

LEMMA CatAppend ==
    ASSUME NEW g \in Seq(Int), NEW q \in Seq(Int), NEW x \in Int
    PROVE  /\ g \o Append(q, x) = Append(g \o q, x)
           /\ Len(Append(g \o q, x)) = Len(g \o q) + 1
           /\ Append(g \o q, x)[Len(g \o q) + 1] = x
           /\ \A i \in 1..Len(g \o q) : Append(g \o q, x)[i] = (g \o q)[i]
<1>1. g \o q \in Seq(Int)
  OBVIOUS
<1>2. g \o Append(q, x) = Append(g \o q, x)
  OBVIOUS
<1> DEFINE s == g \o q
<1>3. /\ Len(Append(s, x)) = Len(s) + 1
      /\ Append(s, x)[Len(s) + 1] = x
      /\ \A i \in 1..Len(s) : Append(s, x)[i] = s[i]
  <2> HIDE DEF s
  <2> QED BY <1>1
<1> QED BY <1>2, <1>3

LEMMA CatMove ==
    ASSUME NEW g \in Seq(Int), NEW q \in Seq(Int), q # << >>
    PROVE  Append(g, Head(q)) \o Tail(q) = g \o q
OBVIOUS

LEMMA CatAt ==
    ASSUME NEW g \in Seq(Int), NEW q \in Seq(Int)
    PROVE  /\ Len(g \o q) = Len(g) + Len(q)
           /\ \A i \in 1..Len(g) : (g \o q)[i] = g[i]
           /\ \A i \in 1..Len(q) : (g \o q)[Len(g) + i] = q[i]
OBVIOUS

\* The run puts an event, or its end.
LEMMA FlaskPuts ==
    ASSUME FlaskInv, RunPuts \/ FinishStream
    PROVE  FlaskInv'
<1>1. got' = got /\ part' = part /\ calls' = calls /\ owner' = owner /\ reader' = reader
  BY DEF RunPuts, FinishStream, sharedVars
<1>2. /\ FlaskTyped /\ NoStream /\ Bound /\ EndKept /\ InPlace(Sent, sender)
      /\ part = "stream" => UpToDate(Sent, sender, calls, filled)
      /\ Whole(Sent, sender, calls, filled)
      /\ sender.pc \in {"runs", "put", "wait", "finish"}
      /\ sender.end = "none"
  BY DEF FlaskInv, RunPuts, FinishStream, Bound
<1>3. part = "stream"
  BY <1>2 DEF NoStream, NoRun, RunPuts, FinishStream
<1>4. reader # "ended"
  BY <1>2 DEF EndKept, EndIsLast
<1> DEFINE S == Sent
           n == Len(Sent)
<1>5. S \in Seq(Int) /\ n \in Nat
  BY <1>2 DEF FlaskTyped, Sent
<1>6. ASSUME NEW x \in Int, queue' = Append(queue, x)
      PROVE  /\ Sent' \in Seq(Int) /\ Len(Sent') = n + 1 /\ Sent'[n + 1] = x
             /\ \A i \in 1..n : Sent'[i] = S[i]
             /\ queue' # << >> /\ queue'[Len(queue')] = x
  <2>1. got \in Seq(Int) /\ queue \in Seq(Int)
    BY <1>2 DEF FlaskTyped
  <2>2. Sent' = got \o Append(queue, x) /\ Sent = got \o queue
    BY <1>1, <1>6 DEF Sent
  <2>3. queue' # << >> /\ queue'[Len(queue')] = x
    <3>1. /\ Append(queue, x) \in Seq(Int) /\ Len(Append(queue, x)) = Len(queue) + 1
          /\ Append(queue, x)[Len(queue) + 1] = x /\ Len(queue) \in Nat
      BY <2>1
    <3> QED BY <1>6, <3>1
  <2>4. Sent' = Append(Sent, x)
    BY <2>1, <2>2, CatAppend
  <2> QED BY <1>5, <2>3, <2>4
<1>7. \A i \in 1..n : S[i] = i \/ (S[i] = ErrorEvent /\ sender.failing /\ sender.pc = "finish" /\ i = n)
  <2>1. ASSUME NEW i \in 1..n, S[i] # i
        PROVE  S[i] = ErrorEvent /\ sender.failing /\ sender.pc = "finish" /\ i = n
    <3>1. S[n] # End
      BY <1>2, <1>5 DEF InPlace, End, ErrorEvent
    <3> QED BY <1>2, <1>5, <2>1, <3>1 DEF InPlace
  <2> QED BY <2>1
<1> HIDE DEF S, n
<1>8. CASE RunPuts
  <2>1. Sending \in Int /\ sender' = [sender EXCEPT !.pc = NextPc] /\ filled' = filled
        /\ queue' = Append(queue, Sending) /\ sender.pc \in {"put", "wait"}
    BY <1>2, <1>3, <1>8 DEF RunPuts, Sending, ErrorEvent, FlaskTyped
  <2>2. /\ Sent' \in Seq(Int) /\ Len(Sent') = n + 1 /\ Sent'[n + 1] = Sending
        /\ \A i \in 1..n : Sent'[i] = S[i]
    BY <1>6, <2>1
  <2>3. \A i \in 1..n : S[i] = i
    BY <1>7, <2>1
  <2>4. ~sender.failing => n + 1 = calls /\ ~sender.closed
    BY <1>2, <1>3, <1>5, <2>1 DEF UpToDate, FlaskTyped, S, n
  <2>5. sender.failing /\ ~filled => sender.pc = "put" /\ n = calls
    BY <1>2, <1>3, <2>1 DEF UpToDate, Bound, S, n
  <2>6. sender \in Senders /\ calls \in Nat
    BY <1>2, <1>3 DEF FlaskTyped
  <2>7. sender' \in Senders /\ sender'.failing = sender.failing /\ sender'.closed = sender.closed
        /\ sender'.end = sender.end /\ sender'.pc = IF sender.failing THEN "finish" ELSE "runs"
    BY <2>1, <2>6 DEF Senders, NextPc
  <2>8. InPlace(Sent', sender')
    <3>1. ASSUME NEW i \in 1..n + 1
          PROVE  \/ Sent'[i] = i
                 \/ Sent'[i] = ErrorEvent /\ sender.failing /\ i = n + 1
      BY <1>5, <2>2, <2>3, <2>4, <2>6, <3>1 DEF Sending
    <3> QED BY <1>5, <2>2, <2>7, <3>1 DEF InPlace
  <2>9. UpToDate(Sent', sender', calls', filled')
    BY <1>1, <1>5, <2>1, <2>2, <2>4, <2>5, <2>6, <2>7 DEF UpToDate, Sending
  <2>10. Whole(Sent', sender', calls', filled')
    BY <1>2, <2>7 DEF Whole
  <2>11. FlaskTyped'
    BY <1>1, <1>2, <2>1, <2>7 DEF FlaskTyped
  <2>12. NoStream' /\ Bound'
    BY <1>1, <1>2, <1>3, <2>1, <2>7 DEF NoStream, Bound
  <2>13. EndKept'
    BY <1>1, <1>2, <1>4, <2>7 DEF EndKept, EndIsLast
  <2> QED BY <2>8, <2>9, <2>10, <2>11, <2>12, <2>13 DEF FlaskInv
<1>9. CASE FinishStream
  <2>1. /\ sender' = [sender EXCEPT !.pc = "ended", !.end = "finished", !.closed = @ \/ QueueFull]
        /\ sender.pc \in {"runs", "finish"}
        /\ IF QueueFull THEN filled' = TRUE /\ queue' = queue
           ELSE queue' = Append(queue, End) /\ filled' = filled
    BY <1>9 DEF FinishStream
  <2>2. sender \in Senders /\ calls \in Nat /\ filled \in BOOLEAN /\ QueueFull \in BOOLEAN
    BY <1>2, <1>3 DEF FlaskTyped, QueueFull
  <2>3. /\ sender' \in Senders /\ sender'.failing = sender.failing /\ sender'.end = "finished"
        /\ sender'.closed = (sender.closed \/ QueueFull) /\ sender'.pc = "ended"
    BY <2>1, <2>2 DEF Senders
  <2>4. NoStream'
    BY <1>1, <1>3 DEF NoStream
  <2>5. CASE QueueFull
    <3>1. Sent' = Sent /\ filled' = TRUE /\ queue' = queue
      BY <1>1, <2>1, <2>5 DEF Sent
    <3>2. InPlace(Sent', sender')
      BY <1>5, <1>7, <2>3, <3>1 DEF InPlace, S, n
    <3>3. UpToDate(Sent', sender', calls', filled') /\ Whole(Sent', sender', calls', filled')
      BY <2>3, <3>1 DEF UpToDate, Whole
    <3>4. FlaskTyped' /\ Bound'
      BY <1>1, <1>2, <2>3, <3>1 DEF FlaskTyped, Bound
    <3>5. EndKept'
      BY <1>1, <1>2, <1>4, <2>3, <3>1 DEF EndKept, EndIsLast
    <3> QED BY <2>4, <3>2, <3>3, <3>4, <3>5 DEF FlaskInv
  <2>6. CASE ~QueueFull
    <3>1. queue' = Append(queue, End) /\ filled' = filled /\ End \in Int
      BY <2>1, <2>6 DEF End
    <3>2. /\ Sent' \in Seq(Int) /\ Len(Sent') = n + 1 /\ Sent'[n + 1] = End
          /\ \A i \in 1..n : Sent'[i] = S[i]
          /\ queue' # << >> /\ queue'[Len(queue')] = End
      BY <1>6, <3>1
    <3>3. InPlace(Sent', sender')
      <4>1. ASSUME NEW i \in 1..n + 1
            PROVE  \/ Sent'[i] = i
                   \/ Sent'[i] = ErrorEvent /\ sender.failing /\ i = n
                   \/ Sent'[i] = End /\ i = n + 1
        BY <1>5, <1>7, <3>2, <4>1
      <4> QED BY <1>5, <2>3, <3>2, <4>1 DEF InPlace
    <3>4. UpToDate(Sent', sender', calls', filled')
      BY <2>3 DEF UpToDate
    <3>5. Whole(Sent', sender', calls', filled')
      <4>1. ASSUME ~filled
            PROVE  /\ calls <= n /\ \A i \in 1..calls : S[i] = i
                   /\ sender.failing => calls + 1 <= n /\ S[calls + 1] = ErrorEvent
        <5>1. ~sender.closed
          BY <1>2, <4>1 DEF Bound
        <5>2. CASE sender.pc = "runs"
          <6>1. ~sender.failing /\ n = calls
            BY <1>2, <1>3, <5>1, <5>2 DEF UpToDate, n
          <6> QED BY <1>7, <2>2, <5>2, <6>1
        <5>3. CASE sender.pc = "finish"
          <6>1. sender.failing /\ n = calls + 1 /\ S[calls + 1] = ErrorEvent
            BY <1>2, <1>3, <4>1, <5>3 DEF UpToDate, n, S
          <6> QED BY <1>7, <2>2, <6>1
        <5> QED BY <2>1, <5>2, <5>3
      <4>2. SUFFICES ASSUME ~filled
                     PROVE  /\ calls <= n + 1 /\ \A i \in 1..calls : Sent'[i] = i
                            /\ sender.failing => calls + 1 <= n + 1 /\ Sent'[calls + 1] = ErrorEvent
        BY <1>1, <2>3, <3>1, <3>2 DEF Whole
      <4>3. calls <= n /\ \A i \in 1..calls : i \in 1..n /\ S[i] = i
        BY <1>5, <2>2, <4>1, <4>2
      <4>4. sender.failing => calls + 1 \in 1..n /\ S[calls + 1] = ErrorEvent
        BY <1>5, <2>2, <4>1, <4>2
      <4>5. \A i \in 1..n : Sent'[i] = S[i]
        BY <3>2
      <4>6. \A i \in 1..calls : Sent'[i] = i
        BY <4>3, <4>5
      <4>7. sender.failing => Sent'[calls + 1] = ErrorEvent /\ calls + 1 <= n
        BY <4>4, <4>5
      <4> QED BY <1>5, <2>2, <4>3, <4>6, <4>7
    <3>6. FlaskTyped' /\ Bound'
      BY <1>1, <1>2, <2>2, <2>3, <2>6, <3>1 DEF FlaskTyped, Bound
    <3>7. EndKept'
      BY <1>1, <1>2, <1>4, <3>2 DEF EndKept, EndIsLast
    <3> QED BY <2>4, <3>3, <3>4, <3>5, <3>6, <3>7 DEF FlaskInv
  <2> QED BY <2>5, <2>6
<1> QED BY <1>8, <1>9

\* The client receives what is first in the queue, or its stream comes to the end.
LEMMA FlaskReceives ==
    ASSUME FlaskInv, Receive
    PROVE  FlaskInv'
<1>1. /\ part' = part /\ calls' = calls /\ owner' = owner /\ sender' = sender /\ filled' = filled
      /\ part = "stream" /\ reader \in {"asks", "waits"} /\ queue # << >> /\ queue' = Tail(queue)
  BY DEF Receive, sharedVars
<1>2. /\ FlaskTyped /\ NoStream /\ Bound /\ EndKept /\ InPlace(Sent, sender)
      /\ UpToDate(Sent, sender, calls, filled)
      /\ Whole(Sent, sender, calls, filled)
  BY <1>1 DEF FlaskInv
<1>3. got \in Seq(Int) /\ queue \in Seq(Int) /\ Sent \in Seq(Int)
  BY <1>2 DEF FlaskTyped, Sent
<1>4. Tail(queue) \in Seq(Int) /\ Head(queue) \in Int /\ Head(queue) = queue[1]
      /\ Len(Tail(queue)) = Len(queue) - 1 /\ Len(queue) \in Nat \ {0}
      /\ \A i \in 1..Len(Tail(queue)) : Tail(queue)[i] = queue[i + 1]
  BY <1>1, <1>3
<1>5. /\ Len(Sent) = Len(got) + Len(queue)
      /\ \A i \in 1..Len(got) : Sent[i] = got[i]
      /\ \A i \in 1..Len(queue) : Sent[Len(got) + i] = queue[i]
  BY <1>3, CatAt DEF Sent
<1>6. NoStream'
  BY <1>1 DEF NoStream
<1>7. CASE Head(queue) = End
  <2>1. reader' = "ended" /\ got' = got
    BY <1>7 DEF Receive
  <2>2. Len(got) + 1 = Len(Sent) /\ sender.end = "finished"
    <3>1. Sent[Len(got) + 1] = End /\ Len(got) + 1 \in 1..Len(Sent)
      BY <1>3, <1>4, <1>5, <1>7
    <3> QED BY <1>2, <3>1 DEF InPlace, End, ErrorEvent
  <2>3. queue' = << >>
    BY <1>1, <1>3, <1>4, <1>5, <2>2
  <2>4. Sent' = got
    BY <1>3, <2>1, <2>3 DEF Sent
  <2>5. \A i \in 1..Len(got) : Sent'[i] = Sent[i]
    BY <1>5, <2>4
  <2>6. InPlace(Sent', sender')
    <3>1. ASSUME NEW i \in 1..Len(got)
          PROVE  Sent[i] = i \/ (/\ Sent[i] = ErrorEvent /\ sender.failing /\ i = Len(got)
                                 /\ sender.pc \in {"finish", "ended"})
      <4>1. i \in 1..Len(Sent) /\ i # Len(Sent) /\ Len(Sent) - 1 = Len(got)
        BY <1>3, <2>2
      <4> QED BY <1>2, <4>1 DEF InPlace
    <3>2. Len(Sent') = Len(got) /\ sender' = sender
      BY <1>1, <2>4
    <3>3. \A i \in 1..Len(got) :
             Sent'[i] = i \/ (/\ Sent'[i] = ErrorEvent /\ sender.failing /\ i = Len(got)
                              /\ sender.pc \in {"finish", "ended"})
      BY <2>5, <3>1
    <3> QED BY <3>2, <3>3 DEF InPlace
  <2>7. sender.pc = "ended"
    BY <1>2, <2>2 DEF Bound
  <2>8. UpToDate(Sent', sender', calls', filled')
    BY <1>1, <2>7 DEF UpToDate
  <2>9. Whole(Sent', sender', calls', filled')
    <3>1. ASSUME NEW i \in 1..Len(Sent), Sent[i] = i \/ Sent[i] = ErrorEvent
          PROVE  i \in 1..Len(got)
      <4>1. Sent[Len(Sent)] = End
        BY <1>3, <1>4, <1>5, <1>7, <2>2
      <4> QED BY <1>3, <2>2, <3>1, <4>1 DEF End, ErrorEvent
    <3>2. calls \in Nat
      BY <1>1, <1>2 DEF FlaskTyped
    <3>3. SUFFICES ASSUME ~filled
                   PROVE  /\ calls <= Len(Sent') /\ \A i \in 1..calls : Sent'[i] = i
                          /\ sender.failing => calls + 1 <= Len(Sent') /\ Sent'[calls + 1] = ErrorEvent
      BY <1>1 DEF Whole
    <3>4. /\ calls <= Len(Sent) /\ \A i \in 1..calls : Sent[i] = i
          /\ sender.failing => calls + 1 <= Len(Sent) /\ Sent[calls + 1] = ErrorEvent
      BY <1>2, <2>2, <3>3 DEF Whole
    <3>5. \A i \in 1..calls : i \in 1..Len(got) /\ Sent'[i] = i
      <4> TAKE i \in 1..calls
      <4>1. i \in 1..Len(Sent) /\ Sent[i] = i
        BY <1>3, <3>2, <3>4
      <4> QED BY <2>5, <3>1, <4>1
    <3>6. calls <= Len(got)
      BY <1>3, <3>2, <3>5
    <3>7. ASSUME sender.failing
          PROVE  calls + 1 <= Len(Sent') /\ Sent'[calls + 1] = ErrorEvent
      <4>1. calls + 1 \in 1..Len(Sent) /\ Sent[calls + 1] = ErrorEvent
        BY <1>3, <3>2, <3>4, <3>7
      <4>2. calls + 1 \in 1..Len(got)
        BY <3>1, <4>1
      <4> QED BY <2>4, <2>5, <4>1, <4>2
    <3> QED BY <2>4, <3>5, <3>6, <3>7
  <2>10. FlaskTyped' /\ Bound'
    BY <1>1, <1>2, <1>3, <2>1, <2>3 DEF FlaskTyped, Bound
  <2>11. EndKept'
    BY <1>1, <1>2, <2>1, <2>2, <2>3 DEF EndKept, EndIsLast
  <2> QED BY <1>6, <2>6, <2>8, <2>9, <2>10, <2>11 DEF FlaskInv
<1>8. CASE Head(queue) # End
  <2>1. reader' = "asks" /\ got' = Append(got, Head(queue))
    BY <1>8 DEF Receive
  <2>2. Sent' = Sent
    BY <1>1, <1>3, <2>1, CatMove DEF Sent
  <2>3. InPlace(Sent', sender') /\ UpToDate(Sent', sender', calls', filled')
        /\ Whole(Sent', sender', calls', filled')
    BY <1>1, <1>2, <2>2
  <2>4. FlaskTyped' /\ Bound'
    BY <1>1, <1>2, <1>3, <1>4, <2>1 DEF FlaskTyped, Bound
  <2>5. \A i \in DOMAIN got' : got'[i] # End
    <3>1. \A i \in DOMAIN got : got[i] # End
      BY <1>2 DEF EndKept
    <3> QED BY <1>3, <1>4, <1>8, <2>1, <3>1
  <2>6. ASSUME ~filled, sender.end = "finished"
        PROVE  queue' # << >> /\ queue'[Len(queue')] = End
    <3>1. queue[Len(queue)] = End
      BY <1>1, <1>2, <2>6 DEF EndKept
    <3>2. Len(queue) > 1
      BY <1>4, <1>8, <3>1
    <3>3. Len(queue') = Len(queue) - 1 /\ queue'[Len(queue) - 1] = queue[Len(queue)]
      BY <1>1, <1>4, <3>2
    <3>4. queue' # << >>
      BY <1>4, <3>2, <3>3
    <3> QED BY <3>1, <3>3, <3>4
  <2>7. EndKept'
    BY <1>1, <2>1, <2>5, <2>6 DEF EndKept, EndIsLast
  <2> QED BY <1>6, <2>3, <2>4, <2>7 DEF FlaskInv
<1> QED BY <1>7, <1>8

LEMMA FlaskStep == FlaskInv /\ [Next]_vars => FlaskInv'
<1> SUFFICES ASSUME FlaskInv, [Next]_vars PROVE FlaskInv'
  OBVIOUS
<1>1. CASE FlaskNext
  BY <1>1, FlaskQuiet, FlaskPuts, FlaskReceives DEF FlaskNext
<1>2. ASSUME UNCHANGED flaskVars, part' = part, part = "stream" => calls' = calls
      PROVE  FlaskInv'
  <2>1. /\ queue' = queue /\ owner' = owner /\ sender' = sender /\ reader' = reader
        /\ got' = got /\ filled' = filled
    BY <1>2 DEF flaskVars
  <2>2. Sent' = Sent
    BY <2>1 DEF Sent
  <2>3. CASE part = "stream"
    BY <1>2, <2>1, <2>2, <2>3 DEF FlaskInv, FlaskTyped, NoStream, Bound, EndKept, EndIsLast
  <2>4. CASE part # "stream"
    <3>1. FlaskTyped' /\ NoStream' /\ Bound' /\ EndKept' /\ InPlace(Sent', sender')
      BY <1>2, <2>1, <2>2, <2>4 DEF FlaskInv, FlaskTyped, NoStream, Bound, EndKept, EndIsLast
    <3>2. sender'.end = "none"
      BY <2>1, <2>4 DEF FlaskInv, NoStream, NoRun
    <3>3. Whole(Sent', sender', calls', filled')
      BY <3>2 DEF Whole
    <3> QED BY <1>2, <2>4, <3>1, <3>3 DEF FlaskInv
  <2> QED BY <2>3, <2>4
<1>3. CASE /\ CacheNext \/ KnowledgeNext \/ ServersNext \/ SubAgentsNext
           /\ UNCHANGED flaskVars
  <2>1. \E p \in {"cache", "knowledge", "servers", "subagents"} : StepOf(p)
    BY <1>3, OnlyOnePart
  <2> QED BY <1>2, <1>3, <2>1 DEF StepOf, sharedVars
<1>4. CASE UNCHANGED vars
  BY <1>2, <1>4 DEF vars, sharedVars
<1> QED BY <1>1, <1>3, <1>4 DEF Next

\* Under Flask, for any queue size, the client receives the events in order and without a
\* gap, an error of the run at most once and as the last; a stream that came to its end was
\* finished and left nothing; the two loops never wait for each other; and nothing is lost
\* or broken unless a put has found the queue full.
THEOREM AlwaysFlaskDelivered == Spec => []FlaskDelivered
<1>1. FlaskInv => FlaskDelivered
  <2> SUFFICES ASSUME FlaskInv PROVE FlaskDelivered
    OBVIOUS
  <2>1. /\ FlaskTyped /\ NoStream /\ Bound /\ EndKept /\ InPlace(Sent, sender)
        /\ Whole(Sent, sender, calls, filled)
    BY DEF FlaskInv
  <2>2. got \in Seq(Int) /\ queue \in Seq(Int) /\ Sent \in Seq(Int)
    BY <2>1 DEF FlaskTyped, Sent
  <2>3. /\ Len(Sent) = Len(got) + Len(queue)
        /\ \A i \in 1..Len(got) : Sent[i] = got[i]
    BY <2>2, CatAt DEF Sent
  <2>4. ReceivedInOrder
    <3> SUFFICES ASSUME NEW i \in 1..Len(got), got[i] # i
                 PROVE  got[i] = ErrorEvent /\ i = Len(got)
      BY <2>2 DEF ReceivedInOrder
    <3>1. got[i] # End /\ Sent[i] = got[i] /\ i \in 1..Len(Sent)
      BY <2>1, <2>2, <2>3 DEF EndKept
    <3>2. Sent[i] = ErrorEvent /\ (i = Len(Sent) \/ (i = Len(Sent) - 1 /\ Sent[Len(Sent)] = End))
      BY <2>1, <3>1 DEF InPlace
    <3>3. CASE Len(got) = Len(Sent)
      <4>1. Sent[Len(Sent)] # End
        <5>1. Len(got) \in 1..Len(got)
          BY <2>2
        <5>2. got[Len(got)] # End
          BY <2>1, <2>2, <5>1 DEF EndKept
        <5> QED BY <2>3, <3>3, <5>1, <5>2
      <4> QED BY <3>1, <3>2, <3>3, <4>1
    <3>4. CASE Len(got) # Len(Sent)
      BY <2>2, <2>3, <3>1, <3>2, <3>4
    <3> QED BY <3>3, <3>4
  <2>5. EndIsLast
    BY <2>1 DEF EndKept
  <2>6. ~(sender.pc = "wait" /\ reader = "waits")
    BY <2>1 DEF Bound
  <2>7. ASSUME ~filled
        PROVE  reader # "broken" /\ sender.end # "refused" /\ ~sender.closed
    BY <2>1, <2>7 DEF Bound
  <2>8. ASSUME ~filled, sender.end = "finished"
        PROVE  /\ 1..calls \subseteq ToSet(got \o queue)
               /\ sender.failing => ErrorEvent \in ToSet(got \o queue)
               /\ reader \in {"asks", "bind", "waits"} => queue # << >> /\ Last(queue) = End
    <3>1. /\ calls <= Len(Sent) /\ \A i \in 1..calls : Sent[i] = i
          /\ sender.failing => calls + 1 <= Len(Sent) /\ Sent[calls + 1] = ErrorEvent
      BY <2>1, <2>8 DEF Whole
    <3>0. calls \in Nat
      BY <2>1, <2>8 DEF NoStream, NoRun, FlaskTyped
    <3>2. \A i \in 1..Len(Sent) : Sent[i] \in ToSet(Sent)
      BY <2>2 DEF ToSet
    <3>3. \A i \in 1..calls : i \in 1..Len(Sent)
      BY <2>2, <3>0, <3>1
    <3>4. 1..calls \subseteq ToSet(Sent)
      BY <3>1, <3>2, <3>3
    <3>5. sender.failing => ErrorEvent \in ToSet(Sent)
      <4>1. sender.failing => calls + 1 \in 1..Len(Sent)
        BY <2>2, <3>0, <3>1
      <4> QED BY <3>1, <3>2, <4>1
    <3>6. reader \in {"asks", "bind", "waits"} => queue # << >> /\ Last(queue) = End
      BY <2>1, <2>8 DEF EndKept, Last
    <3> QED BY <3>4, <3>5, <3>6 DEF Sent
  <2>9. BreaksOnlyFull
    BY <2>6, <2>7, <2>8 DEF BreaksOnlyFull
  <2> QED BY <2>4, <2>5, <2>9 DEF FlaskDelivered
<1> QED BY <1>1, FlaskInitially, FlaskStep, PTL DEF Spec

-----------------------------------------------------------------------------
(* The registry of tools.                                                  *)

\* What is in a sequence after an insertion.
LEMMA InsertedSet ==
    ASSUME NEW S, NEW s \in Seq(S), NEW e \in S, NEW i \in 1..Len(s) + 1
    PROVE  ToSet(InsertAt(s, i, e)) = ToSet(s) \cup {e}
<1> DEFINE t == InsertAt(s, i, e)
<1>1. /\ t \in Seq(S) /\ Len(t) = Len(s) + 1 /\ t[i] = e /\ Len(s) \in Nat
      /\ \A j \in 1..Len(s) : t[IF j < i THEN j ELSE j + 1] = s[j]
  BY InsertAtIs
<1> HIDE DEF t
<1>2. ToSet(t) = {t[j] : j \in 1..Len(t)} /\ ToSet(s) = {s[j] : j \in 1..Len(s)}
  BY <1>1 DEF ToSet
<1>3. ASSUME NEW x \in ToSet(s) PROVE x \in ToSet(t)
  <2>1. PICK j \in 1..Len(s) : s[j] = x
    BY <1>2
  <2>2. (IF j < i THEN j ELSE j + 1) \in 1..Len(t)
    BY <1>1
  <2>3. t[IF j < i THEN j ELSE j + 1] = x
    BY <1>1, <2>1
  <2> QED BY <1>2, <2>2, <2>3
<1>4. e \in ToSet(t)
  <2>1. i \in 1..Len(t)
    BY <1>1
  <2> QED BY <1>1, <1>2, <2>1
<1>5. ASSUME NEW j \in 1..Len(t), j # i PROVE t[j] \in ToSet(s)
  <2> DEFINE k == IF j < i THEN j ELSE j - 1
  <2>1. k \in 1..Len(s) /\ (IF k < i THEN k ELSE k + 1) = j
    BY <1>1, <1>5
  <2> HIDE DEF k
  <2>2. t[IF k < i THEN k ELSE k + 1] = s[k]
    BY <1>1, <2>1
  <2> QED BY <1>2, <2>1, <2>2
<1>6. ToSet(t) = ToSet(s) \cup {e}
  BY <1>1, <1>2, <1>3, <1>4, <1>5
<1> QED BY <1>6 DEF t

\* What is taken out of a sequence without repetition is gone, and the rest stays.
LEMMA RemovedSet ==
    ASSUME NEW S, NEW s \in Seq(S), IsInjective(s), NEW e
    PROVE  /\ RemoveFirst(s, e) \in Seq(S) /\ IsInjective(RemoveFirst(s, e))
           /\ ToSet(RemoveFirst(s, e)) = ToSet(s) \ {e}
<1> DEFINE I == {j \in 1..Len(s) : s[j] = e}
<1>1. Len(s) \in Nat /\ DOMAIN s = 1..Len(s) /\ ToSet(s) = {s[j] : j \in 1..Len(s)}
  BY DEF ToSet
<1>2. CASE I = {}
  <2>1. RemoveFirst(s, e) = s
    BY <1>2 DEF RemoveFirst
  <2> QED BY <1>1, <1>2, <2>1
<1>3. CASE I # {}
  <2>1. PICK i \in I : \A j \in I : i <= j
    <3>1. I \subseteq Nat
      OBVIOUS
    <3> HIDE DEF I
    <3> QED BY <1>3, <3>1, LeastNat
  <2>2. i \in 1..Len(s) /\ s[i] = e
    OBVIOUS
  <2>3. Min(I) = i
    <3>1. \A x \in I : (\A y \in I : x <= y) => x = i
      BY <2>1, <1>1
    <3> HIDE DEF I
    <3> QED BY <2>1, <3>1 DEF Min
  <2> DEFINE t == RemoveAt(s, i)
  <2>4. RemoveFirst(s, e) = t
    <3>1. SelectInSeq(s, LAMBDA v : v = e) = i
      BY <1>3, <2>3 DEF SelectInSeq
    <3> QED BY <2>2, <3>1 DEF RemoveFirst
  <2>5. /\ t \in Seq(S) /\ Len(t) = Len(s) - 1
        /\ \A j \in 1..Len(s) - 1 : t[j] = s[IF j < i THEN j ELSE j + 1]
    BY <2>2, RemoveAtIs
  <2> HIDE DEF t, I
  <2>6. DOMAIN t = 1..Len(s) - 1 /\ ToSet(t) = {t[j] : j \in 1..Len(s) - 1}
    BY <2>5 DEF ToSet
  <2>7. IsInjective(t)
    <3> SUFFICES ASSUME NEW j \in 1..Len(s) - 1, NEW k \in 1..Len(s) - 1, t[j] = t[k] PROVE j = k
      BY <2>6 DEF IsInjective
    <3> DEFINE jj == IF j < i THEN j ELSE j + 1
               kk == IF k < i THEN k ELSE k + 1
    <3>1. jj \in 1..Len(s) /\ kk \in 1..Len(s) /\ (jj = kk => j = k)
      BY <1>1, <2>2
    <3>2. s[jj] = s[kk]
      BY <2>5
    <3> HIDE DEF jj, kk
    <3>3. jj = kk
      BY <1>1, <3>1, <3>2 DEF IsInjective
    <3> QED BY <3>1, <3>3
  <2>8. ASSUME NEW j \in 1..Len(s) - 1 PROVE t[j] \in ToSet(s) /\ t[j] # e
    <3> DEFINE jj == IF j < i THEN j ELSE j + 1
    <3>1. jj \in 1..Len(s) /\ jj # i
      BY <1>1, <2>2
    <3>2. t[j] = s[jj]
      BY <2>5
    <3> HIDE DEF jj
    <3>3. s[jj] # s[i]
      BY <1>1, <2>2, <3>1 DEF IsInjective
    <3> QED BY <1>1, <2>2, <3>1, <3>2, <3>3
  <2>9. ASSUME NEW j \in 1..Len(s), s[j] # e PROVE s[j] \in ToSet(t)
    <3> DEFINE k == IF j < i THEN j ELSE j - 1
    <3>1. j # i
      BY <2>2, <2>9
    <3>2. k \in 1..Len(s) - 1 /\ (IF k < i THEN k ELSE k + 1) = j
      BY <1>1, <2>2, <3>1
    <3> HIDE DEF k
    <3>3. t[k] = s[IF k < i THEN k ELSE k + 1]
      BY <2>5, <3>2
    <3> QED BY <2>6, <3>2, <3>3
  <2>10. ToSet(t) = ToSet(s) \ {e}
    BY <1>1, <2>6, <2>8, <2>9
  <2> QED BY <2>4, <2>5, <2>7, <2>10
<1> QED BY <1>2, <1>3

Tools == [client : Clients \cup {"none"}, category : Categories \cup {"none"}]

\* A registry whose tools and categories say the same.
RegistryOK(r) ==
    /\ r \in [tools : [Names -> Tools], categories : [Categories -> Seq(Names)]]
    /\ \A n \in Names : r.tools[n] = NoTool \/ r.tools[n].category \in Categories
    /\ \A k \in Categories :
         /\ IsInjective(r.categories[k])
         /\ ToSet(r.categories[k]) = {n \in Names : r.tools[n].category = k}

LEMMA NoToolIs == NoTool \in Tools /\ NoTool.category = "none" /\ "none" \notin Categories
BY DEF NoTool, Tools, Categories

LEMMA UnregisteredOK ==
    ASSUME NEW r, RegistryOK(r), NEW n \in Names
    PROVE  /\ RegistryOK(Unregistered(r, n))
           /\ Unregistered(r, n).tools = [r.tools EXCEPT ![n] = NoTool]
<1> DEFINE u == Unregistered(r, n)
<1>1. r.tools \in [Names -> Tools] /\ r.categories \in [Categories -> Seq(Names)]
  BY DEF RegistryOK
<1>2. CASE r.tools[n] = NoTool
  <2>1. u = r
    BY <1>2 DEF Unregistered
  <2>2. r.tools = [r.tools EXCEPT ![n] = NoTool]
    BY <1>1, <1>2
  <2> QED BY <2>1, <2>2
<1>3. CASE r.tools[n] # NoTool
  <2> DEFINE k == r.tools[n].category
             s == RemoveFirst(r.categories[k], n)
  <2>1. k \in Categories
    BY <1>3 DEF RegistryOK
  <2>2. u = [tools |-> [r.tools EXCEPT ![n] = NoTool], categories |-> [r.categories EXCEPT ![k] = s]]
    BY <1>1, <1>3, <2>1 DEF Unregistered
  <2>3. s \in Seq(Names) /\ IsInjective(s) /\ ToSet(s) = ToSet(r.categories[k]) \ {n}
    BY <1>1, <2>1, RemovedSet DEF RegistryOK
  <2> HIDE DEF s
  <2>4. u.tools = [r.tools EXCEPT ![n] = NoTool] /\ u.categories = [r.categories EXCEPT ![k] = s]
    BY <2>2
  <2>5. u.tools \in [Names -> Tools] /\ u.categories \in [Categories -> Seq(Names)]
    BY <1>1, <2>1, <2>3, <2>4, NoToolIs
  <2>6. u \in [tools : [Names -> Tools], categories : [Categories -> Seq(Names)]]
    BY <2>2, <2>4, <2>5
  <2>7. /\ u.tools[n] = NoTool
        /\ \A m \in Names : m # n => u.tools[m] = r.tools[m]
    BY <1>1, <2>4
  <2>8. /\ u.categories[k] = s
        /\ \A l \in Categories : l # k => u.categories[l] = r.categories[l]
    BY <1>1, <2>1, <2>4
  <2> HIDE DEF u
  <2>9. \A m \in Names : u.tools[m] = NoTool \/ u.tools[m].category \in Categories
    BY <2>7 DEF RegistryOK
  <2>10. ASSUME NEW l \in Categories
         PROVE  /\ IsInjective(u.categories[l])
                /\ ToSet(u.categories[l]) = {m \in Names : u.tools[m].category = l}
    <3>1. ToSet(r.categories[l]) = {m \in Names : r.tools[m].category = l}
      BY DEF RegistryOK
    <3>2. {m \in Names : u.tools[m].category = l} = {m \in Names : r.tools[m].category = l} \ {n}
      BY <2>7, NoToolIs
    <3>3. CASE l = k
      BY <2>3, <2>8, <3>1, <3>2, <3>3
    <3>4. CASE l # k
      <4>1. n \notin {m \in Names : r.tools[m].category = l}
        BY <3>4
      <4>2. u.categories[l] = r.categories[l]
        BY <2>8, <3>4
      <4> HIDE DEF k
      <4> QED BY <3>1, <3>2, <4>1, <4>2 DEF RegistryOK
    <3> QED BY <3>3, <3>4
  <2>11. RegistryOK(u)
    BY <2>6, <2>9, <2>10 DEF RegistryOK
  <2> QED BY <2>4, <2>11 DEF u
<1> QED BY <1>2, <1>3

LEMMA RegisteredOK ==
    ASSUME NEW r, RegistryOK(r), NEW n \in Names, r.tools[n] = NoTool,
           NEW tool \in Tools, tool.category \in Categories
    PROVE  /\ RegistryOK(Registered(r, n, tool))
           /\ Registered(r, n, tool).tools = [r.tools EXCEPT ![n] = tool]
<1> DEFINE u == Registered(r, n, tool)
           k == tool.category
           s == Append(r.categories[k], n)
<1>1. r.tools \in [Names -> Tools] /\ r.categories \in [Categories -> Seq(Names)]
  BY DEF RegistryOK
<1>2. u = [tools |-> [r.tools EXCEPT ![n] = tool], categories |-> [r.categories EXCEPT ![k] = s]]
  BY <1>1 DEF Registered
<1>3. n \notin ToSet(r.categories[k])
  BY NoToolIs DEF RegistryOK
<1>4. s \in Seq(Names) /\ IsInjective(s) /\ ToSet(s) = ToSet(r.categories[k]) \cup {n}
  <2> DEFINE q == r.categories[k]
  <2>1. q \in Seq(Names) /\ IsInjective(q)
    BY <1>1 DEF RegistryOK
  <2>2. n \notin ToSet(q)
    BY <1>3
  <2> HIDE DEF q
  <2>3. /\ Append(q, n) \in Seq(Names) /\ Len(Append(q, n)) = Len(q) + 1 /\ Len(q) \in Nat
        /\ Append(q, n)[Len(q) + 1] = n /\ \A j \in 1..Len(q) : Append(q, n)[j] = q[j]
    BY <2>1
  <2> DEFINE a == Append(q, n)
  <2> HIDE DEF a
  <2>4. DOMAIN a = 1..Len(q) + 1 /\ DOMAIN q = 1..Len(q)
    BY <2>1, <2>3 DEF a
  <2>5. \A j \in 1..Len(q) : a[j] = q[j] /\ q[j] # n
    BY <2>2, <2>3, <2>4 DEF ToSet, a
  <2>6. a[Len(q) + 1] = n
    BY <2>3 DEF a
  <2>7. IsInjective(a)
    <3> SUFFICES ASSUME NEW i \in 1..Len(q) + 1, NEW j \in 1..Len(q) + 1, a[i] = a[j] PROVE i = j
      BY <2>4 DEF IsInjective
    <3>1. \A x \in 1..Len(q) + 1 : x \in 1..Len(q) \/ x = Len(q) + 1
      BY <2>3
    <3> QED BY <2>1, <2>4, <2>5, <2>6, <3>1 DEF IsInjective
  <2>8. ToSet(a) = ToSet(q) \cup {n}
    <3>1. 1..Len(q) + 1 = (1..Len(q)) \cup {Len(q) + 1}
      BY <2>3
    <3> QED BY <2>4, <2>5, <2>6, <3>1 DEF ToSet
  <2> QED BY <2>3, <2>7, <2>8 DEF a, q
<1> HIDE DEF s
<1>5. u.tools = [r.tools EXCEPT ![n] = tool] /\ u.categories = [r.categories EXCEPT ![k] = s]
  BY <1>2
<1>6. u.tools \in [Names -> Tools] /\ u.categories \in [Categories -> Seq(Names)]
  BY <1>1, <1>4, <1>5
<1>7. u \in [tools : [Names -> Tools], categories : [Categories -> Seq(Names)]]
  BY <1>2, <1>5, <1>6
<1>8. /\ u.tools[n] = tool
      /\ \A m \in Names : m # n => u.tools[m] = r.tools[m]
  BY <1>1, <1>5
<1>9. /\ u.categories[k] = s
      /\ \A l \in Categories : l # k => u.categories[l] = r.categories[l]
  BY <1>1, <1>5
<1> HIDE DEF u
<1>10. \A m \in Names : u.tools[m] = NoTool \/ u.tools[m].category \in Categories
  BY <1>8 DEF RegistryOK
<1>11. ASSUME NEW l \in Categories
       PROVE  /\ IsInjective(u.categories[l])
              /\ ToSet(u.categories[l]) = {m \in Names : u.tools[m].category = l}
  <2>1. ToSet(r.categories[l]) = {m \in Names : r.tools[m].category = l} /\ IsInjective(r.categories[l])
    BY DEF RegistryOK
  <2>2. CASE l = k
    <3>1. {m \in Names : u.tools[m].category = l} = {m \in Names : r.tools[m].category = l} \cup {n}
      BY <1>8, <2>2
    <3> QED BY <1>4, <1>9, <2>1, <2>2, <3>1
  <2>3. CASE l # k
    <3>1. {m \in Names : u.tools[m].category = l} = {m \in Names : r.tools[m].category = l}
      BY <1>8, <2>3, NoToolIs
    <3> QED BY <1>9, <2>1, <2>3, <3>1
  <2> QED BY <2>2, <2>3
<1>12. RegistryOK(u)
  BY <1>7, <1>10, <1>11 DEF RegistryOK
<1> QED BY <1>5, <1>12 DEF u

\* How far the registry may be from the one before, when client c enters its tools.
EnteredFrom(r, c) ==
    /\ RegistryOK(r)
    /\ \A n \in Names : \/ r.tools[n] = registry.tools[n] \/ r.tools[n] = NoTool
                        \/ /\ r.tools[n] = [client |-> c, category |-> "mcp"]
                           /\ n[1] = client[c].server

\* The loop over the descriptors: one tool after the other.
LEMMA EnteredOK ==
    ASSUME RegistryOK(registry), NEW c \in Clients, client[c].server \in Servers,
           NEW R \in Seq(Remotes)
    PROVE  EnteredFrom(Entered(c, R), c)
<1> DEFINE n(i) == <<client[c].server, R[i]>>
           tool == [client |-> c, category |-> "mcp"]
           next(r, i) == Registered(Unregistered(r, n(i)), n(i), tool)
<1>1. ASSUME NEW i \in 1..Len(R), NEW r, EnteredFrom(r, c)
      PROVE  EnteredFrom(next(r, i), c)
  <2>1. n(i) \in Names /\ n(i)[1] = client[c].server
    BY DEF Names
  <2> DEFINE m == n(i)
             u == Unregistered(r, m)
             v == Registered(u, m, tool)
  <2>2. m \in Names /\ m[1] = client[c].server
    BY <2>1
  <2> HIDE DEF m
  <2>3. RegistryOK(u) /\ u.tools = [r.tools EXCEPT ![m] = NoTool]
    BY <1>1, <2>2, UnregisteredOK DEF EnteredFrom
  <2>4. r.tools \in [Names -> Tools]
    BY <1>1 DEF EnteredFrom, RegistryOK
  <2>5. u.tools[m] = NoTool /\ \A x \in Names : x # m => u.tools[x] = r.tools[x]
    BY <2>2, <2>3, <2>4
  <2> HIDE DEF u
  <2>6. tool \in Tools /\ tool.category \in Categories
    BY DEF Tools, Categories
  <2> HIDE DEF tool
  <2>7. RegistryOK(v) /\ v.tools = [u.tools EXCEPT ![m] = tool]
    <3>1. m \in Names /\ RegistryOK(u) /\ u.tools[m] = NoTool
      BY <2>2, <2>3, <2>5
    <3>2. tool \in Tools /\ tool.category \in Categories
      BY <2>6
    <3> QED BY <3>1, <3>2, RegisteredOK
  <2>8. u.tools \in [Names -> Tools]
    BY <2>3 DEF RegistryOK
  <2>9. v.tools[m] = tool /\ \A x \in Names : x # m => v.tools[x] = r.tools[x]
    BY <2>2, <2>5, <2>7, <2>8
  <2> HIDE DEF v
  <2>10. EnteredFrom(v, c)
    BY <1>1, <2>2, <2>7, <2>9 DEF EnteredFrom, tool
  <2> QED BY <2>10 DEF u, v, m
<1> DEFINE Run(g, k) == g = [i \in 0..k |-> IF i = 0 THEN registry ELSE next(g[i - 1], i)]
<1>2. Len(R) \in Nat
  OBVIOUS
<1> HIDE DEF next
<1>3. \E g : Run(g, Len(R))
  <2> DEFINE T == {k \in 0..Len(R) : ~ \E g : Run(g, k)}
  <2> SUFFICES ASSUME T # {} PROVE FALSE
    BY <1>2
  <2>1. PICK k \in T : \A j \in T : k <= j
    <3>1. T \subseteq Nat
      OBVIOUS
    <3> HIDE DEF T
    <3> QED BY <3>1, LeastNat
  <2>2. k \in 0..Len(R) /\ ~ \E g : Run(g, k)
    BY <2>1
  <2>3. Run([i \in 0..0 |-> registry], 0)
    OBVIOUS
  <2>4. k # 0
    <3> HIDE DEF Run
    <3> QED BY <2>2, <2>3
  <2>5. k - 1 \in 0..Len(R) /\ k - 1 \notin T
    BY <1>2, <2>1, <2>2, <2>4
  <2>6. PICK g : Run(g, k - 1)
    BY <2>5
  <2> HIDE DEF T
  <2> DEFINE h == [i \in 0..k |-> IF i < k THEN g[i] ELSE next(g[k - 1], k)]
  <2>7. ASSUME NEW i \in 0..k
        PROVE  h[i] = IF i = 0 THEN registry ELSE next(h[i - 1], i)
    <3>1. CASE i = 0
      BY <2>2, <2>4, <2>6, <3>1
    <3>2. CASE i # 0 /\ i < k
      <4>1. i \in 0..(k - 1) /\ i - 1 \in 0..k /\ i - 1 < k /\ i - 1 \in 0..(k - 1)
        BY <2>2, <3>2
      <4>2. g[i] = next(g[i - 1], i)
        BY <2>6, <3>2, <4>1
      <4>3. h[i] = g[i] /\ h[i - 1] = g[i - 1]
        BY <3>2, <4>1
      <4> HIDE DEF h, Run
      <4> QED BY <3>2, <4>2, <4>3
    <3>3. CASE i = k
      <4>1. i - 1 \in 0..k /\ i - 1 < k /\ i - 1 = k - 1
        BY <2>2, <2>4, <3>3
      <4>2. h[i] = next(g[k - 1], k) /\ h[i - 1] = g[k - 1]
        BY <3>3, <4>1
      <4> HIDE DEF h, Run
      <4> QED BY <2>4, <3>3, <4>2
    <3> QED BY <2>2, <3>1, <3>2, <3>3
  <2>8. h = [i \in 0..k |-> h[i]]
    OBVIOUS
  <2>9. h = [i \in 0..k |-> IF i = 0 THEN registry ELSE next(h[i - 1], i)]
    <3> HIDE DEF h, Run
    <3> QED BY <2>7, <2>8
  <2> HIDE DEF h
  <2> QED BY <2>2, <2>9
<1> DEFINE entered[i \in 0..Len(R)] ==
             IF i = 0 THEN registry
             ELSE Registered(Unregistered(entered[i - 1], n(i)), n(i), tool)
<1>4. entered = CHOOSE g : Run(g, Len(R))
  BY DEF entered, next
<1>5. Entered(c, R) = entered[Len(R)]
  BY DEF Entered
<1>6. Run(entered, Len(R))
  <2> HIDE DEF entered, Run
  <2> QED BY <1>3, <1>4
<1>7. \A i \in 0..Len(R) : entered[i] = IF i = 0 THEN registry ELSE next(entered[i - 1], i)
  <2> HIDE DEF entered
  <2> QED BY <1>6
<1> HIDE DEF entered, Run
<1>8. EnteredFrom(entered[0], c)
  BY <1>2, <1>7 DEF EnteredFrom
<1>9. EnteredFrom(entered[Len(R)], c)
  <2> DEFINE T == {k \in 0..Len(R) : ~EnteredFrom(entered[k], c)}
  <2> SUFFICES ASSUME T # {} PROVE FALSE
    BY <1>2
  <2>1. PICK k \in T : \A j \in T : k <= j
    <3>1. T \subseteq Nat
      OBVIOUS
    <3> HIDE DEF T
    <3> QED BY <3>1, LeastNat
  <2>2. k \in 0..Len(R) /\ ~EnteredFrom(entered[k], c) /\ k # 0
    BY <1>8, <2>1
  <2>3. k - 1 \in 0..Len(R) /\ k - 1 \notin T /\ k \in 1..Len(R)
    BY <1>2, <2>1, <2>2
  <2>4. EnteredFrom(entered[k - 1], c)
    BY <2>3
  <2>5. EnteredFrom(next(entered[k - 1], k), c)
    BY <1>1, <2>3, <2>4
  <2> QED BY <1>7, <2>2, <2>5
<1> QED BY <1>5, <1>9

-----------------------------------------------------------------------------
(* The servers.                                                            *)

\* What is left to close begins with the first client that is open.
LEMMA FromOpenKeeps ==
    ASSUME NEW s \in Seq(Clients), NEW isOpen
    PROVE  /\ FromOpen(s, isOpen) \in Seq(Clients)
           /\ ToSet(FromOpen(s, isOpen)) \subseteq ToSet(s)
           /\ \A c \in ToSet(s) : isOpen[c] => c \in ToSet(FromOpen(s, isOpen))
<1> DEFINE opens == {i \in DOMAIN s : isOpen[s[i]]}
           k == CHOOSE i \in opens : \A j \in opens : i <= j
           t == FromOpen(s, isOpen)
<1>1. Len(s) \in Nat /\ DOMAIN s = 1..Len(s) /\ ToSet(s) = {s[j] : j \in 1..Len(s)}
  BY DEF ToSet
<1>2. CASE opens = {}
  <2>1. t = << >>
    BY <1>2 DEF FromOpen
  <2>2. \A c \in ToSet(s) : ~isOpen[c]
    BY <1>1, <1>2
  <2>3. t \in Seq(Clients) /\ ToSet(t) = {}
    BY <2>1 DEF ToSet
  <2> QED BY <2>2, <2>3
<1>3. CASE opens # {}
  <2>1. k \in opens /\ \A j \in opens : k <= j
    <3>1. opens \subseteq Nat
      BY <1>1
    <3> HIDE DEF opens
    <3> QED BY <1>3, <3>1, LeastNat
  <2>2. t = SubSeq(s, k, Len(s))
    BY <1>3 DEF FromOpen
  <2>3. k \in 1..Len(s) /\ \A j \in 1..Len(s) : isOpen[s[j]] => k <= j
    BY <1>1, <2>1
  <2> HIDE DEF k, t, opens
  <2>4. k \in 1..Len(s) + 1 /\ Len(s) \in 0..Len(s) /\ k <= Len(s) + 1
    BY <1>1, <2>3
  <2>5. /\ t \in Seq(Clients) /\ Len(t) = Len(s) - k + 1
        /\ \A j \in 1..(Len(s) - k + 1) : t[j] = s[k + j - 1]
    BY <2>2, <2>4, PartIs
  <2>6. ToSet(t) = {t[j] : j \in 1..(Len(s) - k + 1)}
    BY <2>5 DEF ToSet
  <2>7. ToSet(t) \subseteq ToSet(s)
    <3>1. \A j \in 1..(Len(s) - k + 1) : k + j - 1 \in 1..Len(s)
      BY <1>1, <2>3
    <3> QED BY <1>1, <2>5, <2>6, <3>1
  <2>8. ASSUME NEW c \in ToSet(s), isOpen[c] PROVE c \in ToSet(t)
    <3>1. PICK j \in 1..Len(s) : s[j] = c
      BY <1>1
    <3>2. k <= j
      BY <2>3, <2>8, <3>1
    <3>3. j - k + 1 \in 1..(Len(s) - k + 1) /\ k + (j - k + 1) - 1 = j
      BY <1>1, <2>3, <3>2
    <3>4. t[j - k + 1] = s[j]
      BY <2>5, <3>3
    <3> QED BY <2>6, <3>1, <3>3, <3>4
  <2> QED BY <2>5, <2>7, <2>8 DEF t
<1> QED BY <1>2, <1>3

\* Client c comes after the last of its server, if there is one.
LEMMA AppendedKeeps ==
    ASSUME NEW s \in Seq(Clients), NEW c \in Clients
    PROVE  /\ Appended(s, c) \in Seq(Clients)
           /\ Appended(s, c) = s \/ ToSet(Appended(s, c)) = ToSet(s) \cup {c}
           /\ s # << >> => Appended(s, c) # << >>
<1> DEFINE I == {i \in 1..Len(s) : s[i] \in SameServer(c)}
           last == SelectLastInSeq(s, LAMBDA d : d \in SameServer(c))
<1>1. last = IF I # {} THEN Max(I) ELSE 0
  BY DEF SelectLastInSeq
<1>2. Len(s) \in Nat
  OBVIOUS
<1>3. last \in 0..Len(s)
  <2>1. CASE I = {}
    BY <1>1, <1>2, <2>1
  <2>2. CASE I # {}
    <3>1. I \subseteq 0..Len(s)
      BY <1>2
    <3>2. \E x \in I : \A y \in I : y <= x
      <4> HIDE DEF I
      <4> QED BY <1>2, <2>2, <3>1, GreatestNat
    <3>3. Max(I) \in I
      <4>1. Max(I) = CHOOSE x \in I : \A y \in I : x >= y
        BY DEF Max
      <4>2. \E x \in I : \A y \in I : x >= y
        BY <3>2, <3>1
      <4> HIDE DEF I
      <4> QED BY <4>1, <4>2
    <3> HIDE DEF I, last
    <3> QED BY <1>1, <2>2, <3>1, <3>3
  <2> QED BY <2>1, <2>2
<1>4. Appended(s, c) = IF last = 0 THEN s ELSE InsertAt(s, last + 1, c)
  BY DEF Appended
<1> HIDE DEF last
<1>5. CASE last = 0
  BY <1>4, <1>5
<1>6. CASE last # 0
  <2>1. last + 1 \in 1..Len(s) + 1
    BY <1>2, <1>3
  <2>2. /\ InsertAt(s, last + 1, c) \in Seq(Clients)
        /\ Len(InsertAt(s, last + 1, c)) = Len(s) + 1
    BY <2>1, InsertAtIs
  <2>3. ToSet(InsertAt(s, last + 1, c)) = ToSet(s) \cup {c}
    BY <2>1, InsertedSet
  <2>4. InsertAt(s, last + 1, c) # << >>
    BY <1>2, <2>2
  <2> QED BY <1>4, <1>6, <2>2, <2>3, <2>4
<1> QED BY <1>5, <1>6

\* A registration: nothing is open before it starts, whoever brings a server up has found
\* no reason yet to leave it, and a client that is open and was not left is tracked.
LifeOK(k) ==
    /\ k.pc = "unused" => ~k.open
    /\ k.pc \in {"unused", "shake", "list", "closing"} => k.left = "no"
    /\ k.pc \in {"shake", "list", "closing"} => k.server \in Servers
    /\ k.pc = "raised" /\ k.open => k.left # "no"

\* A shutdown, while the clients are cl: it has a client in hand, closes only registered
\* ones, and what was tracked at its call and is open still is left to it.
SweepOK(s, cl) ==
    /\ s.pc # "idle" => s.rest # << >>
    /\ \A c \in ToSet(s.rest) \cup s.began : c \in Clients /\ cl[c].pc = "registered"
    /\ \A c \in s.began : cl[c].open /\ cl[c].left = "no" => c \in ToSet(s.rest)

\* The owner of an MCP tool.
OwnerOK(tool, n, cl) ==
    tool.category = "mcp" =>
       /\ tool.client \in Clients /\ cl[tool.client].server = n[1]
       /\ cl[tool.client].pc = "registered" \/ cl[tool.client].left = "malformed"

ServersInv ==
    /\ client \in [Clients -> ClientStates]
    /\ tracked \in Seq(Clients)
    /\ sweep \in [Threads -> Sweeps]
    /\ RegistryOK(registry)
    /\ \A c \in Clients : LifeOK(client[c])
    /\ \A c \in ToSet(tracked) : c \in Clients /\ client[c].pc = "registered"
    /\ \A c \in Clients : client[c].pc = "registered" /\ client[c].open /\ client[c].left = "no" =>
          c \in ToSet(tracked)
    /\ \A t \in Threads : SweepOK(sweep[t], client)
    /\ \A n \in Names : OwnerOK(registry.tools[n], n, client)

LEMMA NoSweepOK == NoSweep \in Sweeps /\ \A cl : SweepOK(NoSweep, cl)
<1>1. << >> \in Seq(Clients) /\ ToSet(<< >>) = {}
  BY DEF ToSet
<1> QED BY <1>1 DEF NoSweep, Sweeps, SweepOK

LEMMA ServersInitially == Init => ServersInv
<1> SUFFICES ASSUME ServersInit PROVE ServersInv
  BY DEF Init
<1> DEFINE k0 == [pc |-> "unused", server |-> "none", open |-> FALSE, left |-> "no"]
<1>1. client = [c \in Clients |-> k0] /\ tracked = << >> /\ sweep = [t \in Threads |-> NoSweep]
      /\ registry = [tools |-> [n \in Names |-> NoTool], categories |-> [k \in Categories |-> << >>]]
  BY DEF ServersInit
<1>2. k0 \in ClientStates /\ LifeOK(k0) /\ k0.pc = "unused"
  BY DEF ClientStates, LifeOK
<1> HIDE DEF k0
<1>3. client \in [Clients -> ClientStates] /\ \A c \in Clients : LifeOK(client[c]) /\ client[c].pc = "unused"
  BY <1>1, <1>2
<1>4. << >> \in Seq(Clients) /\ << >> \in Seq(Names) /\ ToSet(<< >>) = {} /\ IsInjective(<< >>)
  BY DEF ToSet, IsInjective
<1>5. sweep \in [Threads -> Sweeps] /\ \A t \in Threads : SweepOK(sweep[t], client)
  BY <1>1, NoSweepOK
<1>6. RegistryOK(registry) /\ \A n \in Names : OwnerOK(registry.tools[n], n, client)
  <2>1. registry.tools = [n \in Names |-> NoTool] /\ registry.categories = [k \in Categories |-> << >>]
    BY <1>1
  <2>2. registry \in [tools : [Names -> Tools], categories : [Categories -> Seq(Names)]]
    BY <1>1, <1>4, NoToolIs
  <2>3. \A n \in Names : registry.tools[n] = NoTool
    BY <2>1
  <2>4. \A k \in Categories : registry.categories[k] = << >>
    BY <2>1
  <2>5. \A k \in Categories : {n \in Names : registry.tools[n].category = k} = {}
    BY <2>3, NoToolIs
  <2>6. RegistryOK(registry)
    BY <1>4, <2>2, <2>3, <2>4, <2>5 DEF RegistryOK
  <2>7. NoTool.category # "mcp"
    BY DEF NoTool
  <2> QED BY <2>3, <2>6, <2>7 DEF OwnerOK
<1> QED BY <1>1, <1>3, <1>4, <1>5, <1>6 DEF ServersInv

\* A registration that is under way goes on or fails, as k says; when it fails over a
\* descriptor, some of its tools are entered.
LEMMA ClientGoesOn ==
    ASSUME ServersInv, NEW c \in Clients, NEW k \in ClientStates,
           client[c].pc \in {"unused", "shake", "list", "closing"}, k.pc # "registered", LifeOK(k),
           client' = [client EXCEPT ![c] = k], UNCHANGED <<tracked, sweep>>,
           \/ registry' = registry
           \/ EnteredFrom(registry', c) /\ k.server = client[c].server /\ k.left = "malformed"
    PROVE  ServersInv'
<1>1. /\ client \in [Clients -> ClientStates] /\ tracked \in Seq(Clients) /\ sweep \in [Threads -> Sweeps]
      /\ RegistryOK(registry) /\ LifeOK(client[c])
  BY DEF ServersInv
<1>2. /\ client' \in [Clients -> ClientStates] /\ client'[c] = k
      /\ \A d \in Clients : d # c => client'[d] = client[d]
  BY <1>1
<1>3. \A d \in Clients : LifeOK(client'[d])
  BY <1>2 DEF ServersInv
<1>4. \A d \in ToSet(tracked') : d \in Clients /\ client'[d].pc = "registered"
  BY <1>2 DEF ServersInv
<1>5. \A d \in Clients : client'[d].pc = "registered" /\ client'[d].open /\ client'[d].left = "no" =>
          d \in ToSet(tracked')
  BY <1>2 DEF ServersInv
<1>6. ASSUME NEW t \in Threads PROVE SweepOK(sweep'[t], client')
  <2>1. SweepOK(sweep[t], client) /\ sweep' = sweep
    BY DEF ServersInv
  <2>2. \A d \in ToSet(sweep[t].rest) \cup sweep[t].began : d # c /\ client'[d] = client[d]
    BY <1>2, <2>1 DEF SweepOK
  <2> QED BY <2>1, <2>2 DEF SweepOK
<1>7. RegistryOK(registry')
  BY <1>1 DEF EnteredFrom
<1>8. ASSUME NEW n \in Names PROVE OwnerOK(registry'.tools[n], n, client')
  <2>1. OwnerOK(registry.tools[n], n, client)
    BY DEF ServersInv
  <2>2. OwnerOK(registry.tools[n], n, client')
    <3>1. client[c].left = "no"
      BY <1>1 DEF LifeOK
    <3> QED BY <1>2, <2>1, <3>1 DEF OwnerOK
  <2>3. CASE registry' = registry
    BY <2>2, <2>3
  <2>4. CASE EnteredFrom(registry', c) /\ k.server = client[c].server /\ k.left = "malformed"
    <3>1. \/ registry'.tools[n] = registry.tools[n] \/ registry'.tools[n] = NoTool
          \/ registry'.tools[n] = [client |-> c, category |-> "mcp"] /\ n[1] = client[c].server
      BY <2>4 DEF EnteredFrom
    <3>2. CASE registry'.tools[n] = [client |-> c, category |-> "mcp"] /\ n[1] = client[c].server
      BY <1>2, <2>4, <3>2 DEF OwnerOK
    <3>3. CASE registry'.tools[n] = NoTool
      BY <3>3 DEF OwnerOK, NoTool
    <3> QED BY <2>2, <3>1, <3>2, <3>3
  <2> QED BY <2>3, <2>4
<1> QED BY <1>1, <1>2, <1>3, <1>4, <1>5, <1>6, <1>7, <1>8 DEF ServersInv

LEMMA Registrations ==
    ASSUME ServersInv, NEW c \in Clients, NEW n \in Servers, NEW starts \in BOOLEAN,
           NEW R \in Seq(Remotes),
           \/ Connect(c, n, starts) \/ Shaken(c) \/ HandshakeFails(c) \/ ListFails(c)
           \/ ListCancelled(c) \/ ClosedAfterList(c) \/ CloseAfterListFails(c) \/ Malformed(c, R)
    PROVE  ServersInv'
<1>1. client \in [Clients -> ClientStates] /\ client[c] \in ClientStates /\ LifeOK(client[c])
      /\ RegistryOK(registry)
  BY DEF ServersInv
<1>2. ASSUME NEW pc \in {"list", "closing", "raised"}, NEW open \in BOOLEAN,
             NEW why \in {"no", "handshake", "cancelled", "malformed", "close"},
             Moves(c, pc, open, why), client[c].pc \in {"shake", "list", "closing"},
             pc # "raised" => why = "no", pc = "raised" /\ open => why # "no",
             registry' = registry \/ (EnteredFrom(registry', c) /\ why = "malformed")
      PROVE  ServersInv'
  <2> DEFINE k == [client[c] EXCEPT !.pc = pc, !.open = open, !.left = why]
  <2>1. client' = [client EXCEPT ![c] = k] /\ UNCHANGED <<tracked, sweep>>
    BY <1>1, <1>2 DEF Moves
  <2>2. /\ k \in ClientStates /\ k.pc = pc /\ k.open = open /\ k.left = why
        /\ k.server = client[c].server
    BY <1>1 DEF ClientStates
  <2> HIDE DEF k
  <2>3. LifeOK(k) /\ k.pc # "registered"
    BY <1>1, <1>2, <2>2 DEF LifeOK
  <2> QED BY <1>2, <2>1, <2>2, <2>3, ClientGoesOn
<1>3. CASE Connect(c, n, starts)
  <2> DEFINE k == IF starts THEN [client[c] EXCEPT !.pc = "shake", !.server = n, !.open = TRUE]
                  ELSE [client[c] EXCEPT !.pc = "raised"]
  <2>1. client' = [client EXCEPT ![c] = k] /\ UNCHANGED <<tracked, sweep>> /\ registry' = registry
        /\ client[c].pc = "unused"
    BY <1>1, <1>3 DEF Connect
  <2>2. k \in ClientStates /\ LifeOK(k) /\ k.pc # "registered"
    <3>1. ~client[c].open /\ client[c].left = "no"
      BY <1>1, <2>1 DEF LifeOK
    <3>2. CASE starts
      BY <1>1, <3>1, <3>2 DEF ClientStates, LifeOK
    <3>3. CASE ~starts
      BY <1>1, <3>1, <3>3 DEF ClientStates, LifeOK
    <3> QED BY <3>2, <3>3
  <2> HIDE DEF k
  <2> QED BY <2>1, <2>2, ClientGoesOn
<1>4. CASE Shaken(c)
  BY <1>2, <1>4 DEF Shaken, At
<1>5. CASE HandshakeFails(c)
  BY <1>2, <1>5 DEF HandshakeFails, At
<1>6. CASE ListFails(c)
  BY <1>2, <1>6 DEF ListFails, At
<1>7. CASE ListCancelled(c)
  BY <1>2, <1>7 DEF ListCancelled, At
<1>8. CASE ClosedAfterList(c)
  BY <1>2, <1>8 DEF ClosedAfterList, At
<1>9. CASE CloseAfterListFails(c)
  BY <1>2, <1>9 DEF CloseAfterListFails, At
<1>10. CASE Malformed(c, R)
  <2>1. client[c].pc = "list" /\ Moves(c, "raised", TRUE, "malformed") /\ registry' = Entered(c, R)
    BY <1>10 DEF Malformed, At
  <2>2. EnteredFrom(registry', c)
    BY <1>1, <2>1, EnteredOK DEF LifeOK
  <2> QED BY <1>2, <2>1, <2>2
<1> QED BY <1>3, <1>4, <1>5, <1>6, <1>7, <1>8, <1>9, <1>10

\* tools/list answers.
LEMMA ListedKeeps ==
    ASSUME ServersInv, NEW c \in Clients, NEW R \in Seq(Remotes), Listed(c, R)
    PROVE  ServersInv'
<1>1. /\ client \in [Clients -> ClientStates] /\ tracked \in Seq(Clients) /\ sweep \in [Threads -> Sweeps]
      /\ RegistryOK(registry) /\ LifeOK(client[c])
  BY DEF ServersInv
<1>2. /\ client[c].pc = "list" /\ registry' = Entered(c, R)
      /\ tracked' = IF Appended(tracked, c) = tracked THEN Append(tracked, c) ELSE Appended(tracked, c)
      /\ sweep' = [t \in Threads |->
                     IF sweep[t].live THEN [sweep[t] EXCEPT !.rest = Appended(@, c)] ELSE sweep[t]]
      /\ client' = [client EXCEPT ![c].pc = "registered"]
  BY DEF Listed, At
<1> DEFINE k == [client[c] EXCEPT !.pc = "registered"]
<1>3. client' = [client EXCEPT ![c] = k]
  BY <1>1, <1>2
<1>4. k \in ClientStates /\ LifeOK(k) /\ k.pc = "registered" /\ k.server = client[c].server
  BY <1>1 DEF ClientStates, LifeOK
<1> HIDE DEF k
<1>5. /\ client' \in [Clients -> ClientStates] /\ client'[c] = k
      /\ \A d \in Clients : d # c => client'[d] = client[d]
  BY <1>1, <1>3, <1>4
<1>6. EnteredFrom(registry', c)
  BY <1>1, <1>2, EnteredOK DEF LifeOK
<1>7. tracked' \in Seq(Clients) /\ ToSet(tracked') = ToSet(tracked) \cup {c}
  <2>1. Append(tracked, c) \in Seq(Clients) /\ ToSet(Append(tracked, c)) = ToSet(tracked) \cup {c}
    BY <1>1, AppendedSet
  <2>2. Appended(tracked, c) \in Seq(Clients)
        /\ (Appended(tracked, c) = tracked \/ ToSet(Appended(tracked, c)) = ToSet(tracked) \cup {c})
    BY <1>1, AppendedKeeps
  <2> QED BY <1>2, <2>1, <2>2
<1>8. ASSUME NEW t \in Threads PROVE sweep'[t] \in Sweeps /\ SweepOK(sweep'[t], client')
  <2>1. sweep[t] \in Sweeps /\ SweepOK(sweep[t], client)
    BY <1>1 DEF ServersInv
  <2>2. \A d \in ToSet(sweep[t].rest) \cup sweep[t].began : d # c /\ client'[d] = client[d]
    BY <1>2, <1>5, <2>1 DEF SweepOK
  <2>3. CASE ~sweep[t].live
    <3>1. sweep'[t] = sweep[t]
      BY <1>2, <2>3
    <3> QED BY <2>1, <2>2, <3>1 DEF SweepOK
  <2>4. CASE sweep[t].live
    <3> DEFINE rest == Appended(sweep[t].rest, c)
               s == [sweep[t] EXCEPT !.rest = rest]
    <3>1. sweep'[t] = s
      BY <1>2, <2>4
    <3>2. sweep[t].rest \in Seq(Clients)
      BY <2>1 DEF Sweeps
    <3>3. /\ rest = sweep[t].rest \/ ToSet(rest) = ToSet(sweep[t].rest) \cup {c}
          /\ sweep[t].rest # << >> => rest # << >>
      BY <3>2, AppendedKeeps
    <3>4. rest \in Seq(Clients)
      BY <3>2, AppendedKeeps
    <3> HIDE DEF rest
    <3>5. s \in Sweeps /\ s.rest = rest /\ s.began = sweep[t].began /\ s.pc = sweep[t].pc
      BY <2>1, <3>4 DEF Sweeps
    <3>6. ToSet(sweep[t].rest) \subseteq ToSet(rest) /\ ToSet(rest) \subseteq ToSet(sweep[t].rest) \cup {c}
      BY <3>3
    <3> HIDE DEF s
    <3>7. s.pc # "idle" => s.rest # << >>
      BY <2>1, <3>3, <3>5 DEF SweepOK
    <3>8. \A d \in ToSet(s.rest) \cup s.began : d \in Clients /\ client'[d].pc = "registered"
      BY <1>4, <1>5, <2>1, <2>2, <3>5, <3>6 DEF SweepOK
    <3>9. \A d \in s.began : client'[d].open /\ client'[d].left = "no" => d \in ToSet(s.rest)
      BY <2>1, <2>2, <3>5, <3>6 DEF SweepOK
    <3> QED BY <3>1, <3>5, <3>7, <3>8, <3>9 DEF SweepOK
  <2> QED BY <2>3, <2>4
<1>9. sweep' \in [Threads -> Sweeps]
  <2>1. sweep' = [t \in Threads |-> sweep'[t]]
    BY <1>2
  <2> QED BY <1>8, <2>1
<1>10. \A d \in Clients : LifeOK(client'[d])
  BY <1>4, <1>5 DEF ServersInv
<1>11. \A d \in ToSet(tracked') : d \in Clients /\ client'[d].pc = "registered"
  BY <1>4, <1>5, <1>7 DEF ServersInv
<1>12. \A d \in Clients : client'[d].pc = "registered" /\ client'[d].open /\ client'[d].left = "no" =>
          d \in ToSet(tracked')
  BY <1>5, <1>7 DEF ServersInv
<1>13. ASSUME NEW n \in Names PROVE OwnerOK(registry'.tools[n], n, client')
  <2>1. OwnerOK(registry.tools[n], n, client)
    BY DEF ServersInv
  <2>2. OwnerOK(registry.tools[n], n, client')
    <3>1. client[c].left = "no"
      BY <1>1, <1>2 DEF LifeOK
    <3> QED BY <1>2, <1>5, <2>1, <3>1 DEF OwnerOK
  <2>3. \/ registry'.tools[n] = registry.tools[n] \/ registry'.tools[n] = NoTool
        \/ registry'.tools[n] = [client |-> c, category |-> "mcp"] /\ n[1] = client[c].server
    BY <1>6 DEF EnteredFrom
  <2>4. CASE registry'.tools[n] = [client |-> c, category |-> "mcp"] /\ n[1] = client[c].server
    BY <1>4, <1>5, <2>4 DEF OwnerOK
  <2>5. CASE registry'.tools[n] = NoTool
    BY <2>5 DEF OwnerOK, NoTool
  <2> QED BY <2>2, <2>3, <2>4, <2>5
<1>14. RegistryOK(registry')
  BY <1>6 DEF EnteredFrom
<1> QED BY <1>5, <1>7, <1>8, <1>9, <1>10, <1>11, <1>12, <1>13, <1>14 DEF ServersInv

LEMMA HeadAndTail ==
    ASSUME NEW s \in Seq(Clients), s # << >>
    PROVE  /\ Head(s) \in Clients /\ Tail(s) \in Seq(Clients)
           /\ ToSet(s) = {Head(s)} \cup ToSet(Tail(s))
<1> DEFINE t == Tail(s)
<1>1. /\ Len(s) \in Nat /\ Len(s) # 0 /\ Head(s) = s[1] /\ s[1] \in Clients
      /\ t \in Seq(Clients) /\ Len(t) = Len(s) - 1
      /\ \A j \in 1..Len(s) - 1 : t[j] = s[j + 1]
  OBVIOUS
<1>2. ToSet(s) = {s[j] : j \in 1..Len(s)}
  BY DEF ToSet
<1> HIDE DEF t
<1>3. ToSet(t) = {t[j] : j \in 1..Len(s) - 1}
  <2>1. DOMAIN t = 1..Len(s) - 1
    BY <1>1
  <2> QED BY <2>1 DEF ToSet
<1>4. \A j \in 1..Len(s) : j = 1 \/ (j - 1 \in 1..Len(s) - 1 /\ (j - 1) + 1 = j)
  BY <1>1
<1>5. 1 \in 1..Len(s) /\ \A j \in 1..Len(s) - 1 : j + 1 \in 1..Len(s)
  BY <1>1
<1>6. ToSet(s) \subseteq {Head(s)} \cup ToSet(t)
  <2> SUFFICES ASSUME NEW j \in 1..Len(s), j # 1 PROVE s[j] \in ToSet(t)
    BY <1>1, <1>2
  <2>1. j - 1 \in 1..Len(s) - 1 /\ (j - 1) + 1 = j
    BY <1>4
  <2>2. t[j - 1] = s[j]
    BY <1>1, <2>1
  <2> QED BY <1>3, <2>1, <2>2
<1>7. {Head(s)} \cup ToSet(t) \subseteq ToSet(s)
  BY <1>1, <1>2, <1>3, <1>5
<1> QED BY <1>1, <1>6, <1>7 DEF t

\* The shutdown of task t goes on to its next client, or clears the dictionary and ends.
\* The client it had in hand is closed or known to have failed, so that whatever else it
\* set out to close and is open still is among those left to it: when none is left,
\* clearing the dictionary forgets nothing that it owed to close.
LEMMA NextClientKeeps ==
    ASSUME ServersInv, NEW t \in Threads, sweep[t].pc # "idle",
           NEW isOpen \in [Clients -> BOOLEAN], NEW F,
           \A c \in Clients : isOpen[c] => client[c].open,
           F \subseteq {Head(sweep[t].rest)},
           isOpen[Head(sweep[t].rest)] => Head(sweep[t].rest) \in F,
           NextClient(t, isOpen, F)
    PROVE  ServersInv'
<1> DEFINE q == sweep[t].rest
           rest == FromOpen(Tail(q), isOpen)
           ends == rest = << >>
           dropped == IF ends THEN {c \in ToSet(tracked) \ sweep[t].began : isOpen[c]} ELSE {}
           why(c) == IF c \in F THEN "close"
                     ELSE IF c \in dropped /\ client[c].left = "no" THEN "cleared" ELSE client[c].left
<1>1. /\ client \in [Clients -> ClientStates] /\ tracked \in Seq(Clients) /\ sweep \in [Threads -> Sweeps]
      /\ RegistryOK(registry) /\ SweepOK(sweep[t], client) /\ sweep[t] \in Sweeps
  BY DEF ServersInv
<1>2. /\ client' = [c \in Clients |-> [client[c] EXCEPT !.open = isOpen[c], !.left = why(c)]]
      /\ tracked' = IF ends THEN << >> ELSE tracked
      /\ sweep' = [u \in Threads |->
              IF u # t THEN [sweep[u] EXCEPT !.live = @ /\ ~ends]
              ELSE IF ends THEN NoSweep
              ELSE [sweep[t] EXCEPT !.pc = "dispatcher", !.rest = rest]]
      /\ registry' = registry
  BY DEF NextClient
<1>3. q \in Seq(Clients) /\ q # << >>
  BY <1>1 DEF Sweeps, SweepOK
<1>4. /\ Head(q) \in Clients /\ Tail(q) \in Seq(Clients)
      /\ ToSet(q) = {Head(q)} \cup ToSet(Tail(q))
  BY <1>3, HeadAndTail
<1>5. /\ rest \in Seq(Clients) /\ ToSet(rest) \subseteq ToSet(q)
      /\ \A c \in ToSet(q) : isOpen[c] /\ c \notin F => c \in ToSet(rest)
  <2>1. /\ rest \in Seq(Clients) /\ ToSet(rest) \subseteq ToSet(Tail(q))
        /\ \A c \in ToSet(Tail(q)) : isOpen[c] => c \in ToSet(rest)
    BY <1>4, FromOpenKeeps
  <2> QED BY <1>4, <2>1
<1>6. ASSUME NEW c \in F PROVE client[c].pc = "registered" /\ c \in Clients
  BY <1>1, <1>4 DEF SweepOK
<1>7. ASSUME NEW c \in dropped PROVE client[c].pc = "registered" /\ c \in ToSet(tracked)
  BY DEF ServersInv
<1>8. ends => ToSet(rest) = {}
  BY DEF ToSet
<1>9. dropped = IF ends THEN {c \in ToSet(tracked) \ sweep[t].began : isOpen[c]} ELSE {}
  OBVIOUS
<1> HIDE DEF q, rest, dropped
<1>10. ASSUME NEW c \in Clients
       PROVE  /\ client'[c] \in ClientStates /\ client'[c].pc = client[c].pc
              /\ client'[c].server = client[c].server /\ client'[c].open = isOpen[c]
              /\ client'[c].left = why(c)
  <2>1. why(c) \in {"no", "handshake", "cancelled", "malformed", "close", "cleared"}
    BY <1>1 DEF ClientStates
  <2> HIDE DEF why
  <2>2. client'[c] = [client[c] EXCEPT !.open = isOpen[c], !.left = why(c)]
    BY <1>2
  <2> QED BY <1>1, <2>1, <2>2 DEF ClientStates
<1>11. ASSUME NEW c \in Clients, client'[c].left = "no"
       PROVE  client[c].left = "no" /\ c \notin F /\ c \notin dropped
  BY <1>10, <1>11
<1>12. client' \in [Clients -> ClientStates]
  <2>1. client' = [c \in Clients |-> client'[c]]
    BY <1>2
  <2> QED BY <1>10, <2>1
<1>13. tracked' \in Seq(Clients) /\ ToSet(tracked') \subseteq ToSet(tracked)
  <2>1. << >> \in Seq(Clients) /\ ToSet(<< >>) = {}
    BY DEF ToSet
  <2> QED BY <1>1, <1>2, <2>1
<1>14. ASSUME NEW c \in Clients PROVE LifeOK(client'[c])
  <2>1. LifeOK(client[c])
    BY DEF ServersInv
  <2>2. client[c].pc # "registered" => why(c) = client[c].left
    BY <1>6, <1>7
  <2> QED BY <1>10, <2>1, <2>2 DEF LifeOK
<1>15. \A c \in ToSet(tracked') : c \in Clients /\ client'[c].pc = "registered"
  BY <1>10, <1>13 DEF ServersInv
\* What was tracked at the call, is open and was not left is in what is left to close.
<1>16. ASSUME NEW c \in sweep[t].began, client'[c].open, client'[c].left = "no"
       PROVE  c \in ToSet(rest)
  <2>1. c \in Clients
    BY <1>1 DEF SweepOK
  <2>2. isOpen[c] /\ client[c].open /\ client[c].left = "no" /\ c \notin F
    BY <1>10, <1>11, <1>16, <2>1
  <2>3. c \in ToSet(q)
    BY <1>1, <2>2 DEF SweepOK, q
  <2> QED BY <1>5, <2>2, <2>3
<1>17. ASSUME NEW c \in Clients, client'[c].pc = "registered", client'[c].open, client'[c].left = "no"
       PROVE  c \in ToSet(tracked')
  <2>1. isOpen[c] /\ client[c].open /\ client[c].left = "no" /\ c \notin dropped
    BY <1>10, <1>11, <1>17
  <2>2. c \in ToSet(tracked)
    BY <1>10, <1>17, <2>1 DEF ServersInv
  <2>3. ~ends
    <3> SUFFICES ASSUME ends PROVE FALSE
      OBVIOUS
    <3>1. c \in sweep[t].began
      BY <1>9, <2>1, <2>2
    <3> QED BY <1>8, <1>16, <1>17, <3>1
  <2> QED BY <1>2, <2>2, <2>3
<1>18. ASSUME NEW u \in Threads PROVE sweep'[u] \in Sweeps /\ SweepOK(sweep'[u], client')
  <2>1. sweep[u] \in Sweeps /\ SweepOK(sweep[u], client)
    BY DEF ServersInv
  <2>2. CASE u # t
    <3> DEFINE s == [sweep[u] EXCEPT !.live = @ /\ ~ends]
    <3>1. sweep'[u] = s
      BY <1>2, <2>2
    <3>2. s \in Sweeps /\ s.rest = sweep[u].rest /\ s.began = sweep[u].began /\ s.pc = sweep[u].pc
      BY <2>1 DEF Sweeps
    <3> HIDE DEF s
    <3>3. \A c \in ToSet(s.rest) \cup s.began : c \in Clients /\ client'[c].pc = "registered"
      BY <1>10, <2>1, <3>2 DEF SweepOK
    <3>4. \A c \in s.began : client'[c].open /\ client'[c].left = "no" => c \in ToSet(s.rest)
      <4> SUFFICES ASSUME NEW c \in s.began, client'[c].open, client'[c].left = "no"
                   PROVE  c \in ToSet(s.rest)
        OBVIOUS
      <4>1. c \in Clients
        BY <3>3
      <4>2. client[c].open /\ client[c].left = "no"
        BY <1>10, <1>11, <4>1
      <4> QED BY <2>1, <3>2, <4>2 DEF SweepOK
    <3> QED BY <2>1, <3>1, <3>2, <3>3, <3>4 DEF SweepOK
  <2>3. CASE u = t /\ ends
    BY <1>2, <2>3, NoSweepOK
  <2>4. CASE u = t /\ ~ends
    <3> DEFINE s == [sweep[t] EXCEPT !.pc = "dispatcher", !.rest = rest]
    <3>1. sweep'[u] = s
      BY <1>2, <2>4
    <3>2. s \in Sweeps /\ s.rest = rest /\ s.began = sweep[t].began
      BY <1>1, <1>5 DEF Sweeps
    <3> HIDE DEF s
    <3>3. \A c \in ToSet(s.rest) \cup s.began : c \in Clients /\ client'[c].pc = "registered"
      BY <1>1, <1>5, <1>10, <3>2 DEF SweepOK, q
    <3> QED BY <1>16, <2>4, <3>1, <3>2, <3>3 DEF SweepOK
  <2> QED BY <2>2, <2>3, <2>4
<1>19. sweep' \in [Threads -> Sweeps]
  <2>1. sweep' = [u \in Threads |-> sweep'[u]]
    BY <1>2
  <2> QED BY <1>18, <2>1
<1>20. ASSUME NEW n \in Names PROVE OwnerOK(registry'.tools[n], n, client')
  <2> DEFINE c == registry.tools[n].client
  <2>1. OwnerOK(registry.tools[n], n, client)
    BY DEF ServersInv
  <2>2. ASSUME c \in Clients, client[c].left = "malformed"
        PROVE  client'[c].pc = "registered" \/ client'[c].left = "malformed"
    BY <1>6, <1>10, <2>2
  <2>3. ASSUME c \in Clients
        PROVE  client'[c].server = client[c].server /\ client'[c].pc = client[c].pc
    BY <1>10, <2>3
  <2>4. registry' = registry
    BY <1>2
  <2> QED BY <2>1, <2>2, <2>3, <2>4 DEF OwnerOK
<1> QED BY <1>1, <1>2, <1>12, <1>13, <1>14, <1>15, <1>17, <1>18, <1>19, <1>20 DEF ServersInv

\* A shutdown begins, ends or is cancelled; a client that stays as it was is not affected.
LEMMA Shutdowns ==
    ASSUME ServersInv, NEW t \in Threads,
           \/ Shutdown(t) \/ ShutdownOfNone(t) \/ Stopped(t) \/ Closed(t) \/ CloseFails(t)
           \/ ShutdownCancelled(t)
    PROVE  ServersInv'
<1>1. /\ client \in [Clients -> ClientStates] /\ tracked \in Seq(Clients) /\ sweep \in [Threads -> Sweeps]
      /\ RegistryOK(registry)
  BY DEF ServersInv
<1>2. IsOpen \in [Clients -> BOOLEAN] /\ \A c \in Clients : IsOpen[c] = client[c].open
  BY <1>1 DEF IsOpen, ClientStates
<1>3. /\ FromOpen(tracked, IsOpen) \in Seq(Clients)
      /\ ToSet(FromOpen(tracked, IsOpen)) \subseteq ToSet(tracked)
      /\ \A c \in ToSet(tracked) : IsOpen[c] => c \in ToSet(FromOpen(tracked, IsOpen))
  BY <1>1, FromOpenKeeps
\* The clients and the registry stay, and so does what the other shutdowns know of them.
<1>4. ASSUME UNCHANGED <<client, registry>>,
             sweep' \in [Threads -> Sweeps], \A u \in Threads : SweepOK(sweep'[u], client),
             \/ tracked' = tracked
             \/ tracked' = << >> /\ \A c \in ToSet(tracked) : ~client[c].open
      PROVE  ServersInv'
  <2>1. << >> \in Seq(Clients) /\ ToSet(<< >>) = {}
    BY DEF ToSet
  <2>2. /\ tracked' \in Seq(Clients)
        /\ \A c \in ToSet(tracked') : c \in Clients /\ client'[c].pc = "registered"
        /\ \A c \in Clients : client'[c].pc = "registered" /\ client'[c].open /\ client'[c].left = "no"
                                => c \in ToSet(tracked')
    BY <1>4, <2>1 DEF ServersInv
  <2> QED BY <1>1, <1>4, <2>2 DEF ServersInv
<1>5. ASSUME NEW s \in Sweeps, SweepOK(s, client), sweep' = [sweep EXCEPT ![t] = s],
             UNCHANGED <<client, registry, tracked>>
      PROVE  ServersInv'
  <2>1. sweep' \in [Threads -> Sweeps] /\ \A u \in Threads : SweepOK(sweep'[u], client)
    BY <1>1, <1>5 DEF ServersInv
  <2> QED BY <1>4, <1>5, <2>1
<1>6. CASE Shutdown(t)
  <2> DEFINE s == [pc |-> "dispatcher", began |-> ToSet(tracked), live |-> TRUE,
                   rest |-> FromOpen(tracked, IsOpen)]
  <2>1. /\ FromOpen(tracked, IsOpen) # << >> /\ sweep' = [sweep EXCEPT ![t] = s]
        /\ UNCHANGED <<client, registry, tracked>>
    BY <1>6 DEF Shutdown
  <2>2. s \in Sweeps
    BY <1>3 DEF Sweeps, ServersInv
  <2>3. s.rest = FromOpen(tracked, IsOpen) /\ s.began = ToSet(tracked)
    OBVIOUS
  <2> HIDE DEF s
  <2>4. SweepOK(s, client)
    BY <1>2, <1>3, <2>1, <2>3 DEF SweepOK, ServersInv
  <2> QED BY <1>5, <2>1, <2>2, <2>4
<1>7. CASE ShutdownOfNone(t)
  <2>1. /\ FromOpen(tracked, IsOpen) = << >> /\ tracked' = << >> /\ UNCHANGED <<client, registry>>
        /\ sweep' = [u \in Threads |-> [sweep[u] EXCEPT !.live = FALSE]]
    BY <1>7 DEF ShutdownOfNone
  <2>2. \A c \in ToSet(tracked) : ~client[c].open
    <3>1. ToSet(<< >>) = {}
      BY DEF ToSet
    <3> QED BY <1>2, <1>3, <2>1, <3>1 DEF ServersInv
  <2>3. ASSUME NEW u \in Threads PROVE sweep'[u] \in Sweeps /\ SweepOK(sweep'[u], client)
    <3> DEFINE s == [sweep[u] EXCEPT !.live = FALSE]
    <3>1. sweep'[u] = s /\ sweep[u] \in Sweeps /\ SweepOK(sweep[u], client)
      BY <1>1, <2>1 DEF ServersInv
    <3>2. s \in Sweeps /\ s.rest = sweep[u].rest /\ s.began = sweep[u].began /\ s.pc = sweep[u].pc
      BY <3>1 DEF Sweeps
    <3> HIDE DEF s
    <3> QED BY <3>1, <3>2 DEF SweepOK
  <2>4. sweep' \in [Threads -> Sweeps]
    <3>1. sweep' = [u \in Threads |-> sweep'[u]]
      BY <2>1
    <3> QED BY <2>3, <3>1
  <2> QED BY <1>4, <2>1, <2>2, <2>3, <2>4
<1>8. ASSUME sweep[t].pc # "idle" PROVE Head(sweep[t].rest) \in Clients
  <2>1. sweep[t].rest \in Seq(Clients) /\ sweep[t].rest # << >>
    BY <1>1, <1>8 DEF ServersInv, SweepOK, Sweeps
  <2> QED BY <2>1, HeadAndTail
<1>9. CASE Stopped(t)
  <2> DEFINE c == Head(sweep[t].rest)
  <2>1. sweep[t].pc = "dispatcher" /\ c \in Clients
    BY <1>8, <1>9 DEF Stopped, Closing
  <2>2. CASE client[c].open
    <3> DEFINE s == [sweep[t] EXCEPT !.pc = "transport"]
    <3>1. sweep' = [sweep EXCEPT ![t] = s] /\ UNCHANGED <<client, registry, tracked>>
      BY <1>1, <1>9, <2>2 DEF Stopped
    <3>2. s \in Sweeps /\ s.rest = sweep[t].rest /\ s.began = sweep[t].began
      BY <1>1 DEF Sweeps
    <3> HIDE DEF s
    <3>3. SweepOK(s, client)
      BY <2>1, <3>2 DEF ServersInv, SweepOK
    <3> QED BY <1>5, <3>1, <3>2, <3>3
  <2>3. CASE ~client[c].open
    <3>1. NextClient(t, IsOpen, {})
      BY <1>9, <2>3 DEF Stopped
    <3> QED BY <1>2, <2>1, <2>3, <3>1, NextClientKeeps
  <2> QED BY <2>2, <2>3
<1>10. CASE Closed(t)
  <2> DEFINE c == Head(sweep[t].rest)
             o == [IsOpen EXCEPT ![c] = FALSE]
  <2>1. sweep[t].pc = "transport" /\ c \in Clients /\ NextClient(t, o, {})
    BY <1>8, <1>10 DEF Closed, Closing
  <2>2. /\ o \in [Clients -> BOOLEAN] /\ ~o[c]
        /\ \A d \in Clients : o[d] => client[d].open
    BY <1>2, <2>1
  <2> HIDE DEF o
  <2> QED BY <2>1, <2>2, NextClientKeeps
<1>11. CASE CloseFails(t)
  <2>1. sweep[t].pc = "transport" /\ NextClient(t, IsOpen, {Head(sweep[t].rest)})
    BY <1>11 DEF CloseFails, Closing
  <2> QED BY <1>2, <2>1, NextClientKeeps
<1>12. CASE ShutdownCancelled(t)
  BY <1>5, <1>12, NoSweepOK DEF ShutdownCancelled
<1> QED BY <1>6, <1>7, <1>9, <1>10, <1>11, <1>12

\* A tool of the program is registered, or a tool is unregistered.
LEMMA ToolsChange ==
    ASSUME ServersInv, NEW n \in Names, RegisterTool(n) \/ Unregister(n)
    PROVE  ServersInv'
<1>1. UNCHANGED <<client, tracked, sweep>>
  BY DEF RegisterTool, Unregister
<1> DEFINE tool == [client |-> "none", category |-> "local"]
<1>2. tool \in Tools /\ tool.category \in Categories /\ tool.category # "mcp" /\ NoTool.category # "mcp"
  BY DEF Tools, Categories, NoTool
<1> HIDE DEF tool
<1>3. RegistryOK(registry) /\ registry.tools \in [Names -> Tools]
  BY DEF ServersInv, RegistryOK
<1>4. /\ RegistryOK(registry')
      /\ \/ registry'.tools = [registry.tools EXCEPT ![n] = tool]
         \/ registry'.tools = [registry.tools EXCEPT ![n] = NoTool]
  <2>1. CASE RegisterTool(n)
    <3>1. registry.tools[n] = NoTool /\ registry' = Registered(registry, n, tool)
      BY <2>1 DEF RegisterTool, tool
    <3> QED BY <1>2, <1>3, <3>1, RegisteredOK
  <2>2. CASE Unregister(n)
    <3>1. registry' = Unregistered(registry, n)
      BY <2>2 DEF Unregister
    <3> QED BY <1>3, <3>1, UnregisteredOK
  <2> QED BY <2>1, <2>2
<1>5. ASSUME NEW m \in Names PROVE OwnerOK(registry'.tools[m], m, client')
  <2>1. OwnerOK(registry.tools[m], m, client)
    BY DEF ServersInv
  <2>2. registry'.tools[m] = registry.tools[m] \/ registry'.tools[m] = tool \/ registry'.tools[m] = NoTool
    BY <1>3, <1>4
  <2> QED BY <1>1, <1>2, <2>1, <2>2 DEF OwnerOK
<1>6. ASSUME NEW t \in Threads PROVE SweepOK(sweep'[t], client')
  BY <1>1 DEF ServersInv
<1> QED BY <1>1, <1>4, <1>5, <1>6 DEF ServersInv

LEMMA ServersStep == ServersInv /\ [Next]_vars => ServersInv'
<1> SUFFICES ASSUME ServersInv, [Next]_vars PROVE ServersInv'
  OBVIOUS
<1>1. CASE ServersNext
  <2>1. \A R : R \in Descriptors => R \in Seq(Remotes)
    BY DEF Descriptors, SeqOf
  <2>2. ASSUME NEW c \in Clients, NEW n \in Servers, NEW starts \in BOOLEAN, Connect(c, n, starts)
        PROVE  ServersInv'
    <3>1. << >> \in Seq(Remotes)
      OBVIOUS
    <3> QED BY <2>2, <3>1, Registrations
  <2>3. ASSUME NEW c \in Clients,
               \/ Shaken(c) \/ HandshakeFails(c) \/ ListFails(c) \/ ListCancelled(c)
               \/ ClosedAfterList(c) \/ CloseAfterListFails(c)
        PROVE  ServersInv'
    <3>1. client[c].pc \in {"shake", "list", "closing"}
      BY <2>3 DEF Shaken, HandshakeFails, ListFails, ListCancelled, ClosedAfterList,
                  CloseAfterListFails, At
    <3>2. client[c].server \in Servers /\ << >> \in Seq(Remotes) /\ TRUE \in BOOLEAN
      BY <3>1 DEF ServersInv, LifeOK
    <3> QED BY <2>3, <3>2, Registrations
  <2>4. ASSUME NEW c \in Clients, NEW R \in Descriptors, Listed(c, R) PROVE ServersInv'
    BY <2>1, <2>4, ListedKeeps
  <2>5. ASSUME NEW c \in Clients, NEW R \in Descriptors, Malformed(c, R) PROVE ServersInv'
    <3>1. client[c].pc = "list"
      BY <2>5 DEF Malformed, At
    <3>2. client[c].server \in Servers /\ R \in Seq(Remotes) /\ TRUE \in BOOLEAN
      BY <2>1, <3>1 DEF ServersInv, LifeOK
    <3> QED BY <2>5, <3>2, Registrations
  <2>6. ASSUME NEW t \in Threads,
               \/ Shutdown(t) \/ ShutdownOfNone(t) \/ Stopped(t) \/ Closed(t) \/ CloseFails(t)
               \/ ShutdownCancelled(t)
        PROVE  ServersInv'
    BY <2>6, Shutdowns
  <2>7. ASSUME NEW n \in Names, RegisterTool(n) \/ Unregister(n) PROVE ServersInv'
    BY <2>7, ToolsChange
  <2> QED BY <1>1, <2>2, <2>3, <2>4, <2>5, <2>6, <2>7 DEF ServersNext
<1>2. CASE UNCHANGED serversVars
  <2>1. UNCHANGED <<client, tracked, registry, sweep>>
    BY <1>2 DEF serversVars
  <2>2. \A t \in Threads : SweepOK(sweep'[t], client')
    BY <2>1 DEF ServersInv
  <2> QED BY <2>1, <2>2 DEF ServersInv
<1>3. Next => ServersNext \/ UNCHANGED serversVars
  BY DEF Next
<1>4. UNCHANGED vars => UNCHANGED serversVars
  BY DEF vars
<1> QED BY <1>1, <1>2, <1>3, <1>4

\* However many servers come up and shutdowns run, fail or are cancelled in between: a
\* transport that is open when its registration is over is tracked, or is one that nobody
\* closes for a reason that is named; and the tools and the categories of the registry say
\* the same, each tool once, an MCP tool being one of a client of its server.
THEOREM AlwaysServersKept == Spec => []ServersKept
<1>1. ServersInv => ServersKept
  <2> SUFFICES ASSUME ServersInv PROVE ServersKept
    OBVIOUS
  <2>1. NoLeak
    <3> SUFFICES ASSUME NEW c \in Clients, client[c].open, client[c].pc \in {"registered", "raised"}
                 PROVE  c \in ToSet(tracked) \/ client[c].left # "no"
      BY DEF NoLeak
    <3>1. LifeOK(client[c])
      BY DEF ServersInv
    <3> QED BY <3>1 DEF ServersInv, LifeOK
  <2>2. RegistrySound
    <3>1. \A n \in Names : OwnerOK(registry.tools[n], n, client)
      BY DEF ServersInv
    <3>2. RegistryOK(registry)
      BY DEF ServersInv
    <3> QED BY <3>1, <3>2 DEF RegistrySound, RegistryOK, OwnerOK
  <2> QED BY <2>1, <2>2 DEF ServersKept
<1>2. Spec => []ServersInv
  BY ServersInitially, ServersStep, PTL DEF Spec
<1> QED BY <1>1, <1>2, PTL

-----------------------------------------------------------------------------
(* The knowledge base under threads.                                       *)

Places == Seq(Slot \cup {Hole})

KnowledgeTyped ==
    /\ docs \in Places /\ index \in Places
    /\ words \subseteq Texts /\ dirty \in BOOLEAN /\ suspect \in BOOLEAN
    /\ find \in [Threads -> Finds]

IdsOf(s) == {x.id : x \in Slots(s)}

\* A thread is in the middle of an operation of the knowledge base, here one that wrote
\* documents and has not marked them yet.
In(t) == part = "knowledge" /\ t \in busy
Writes(t) == In(t) /\ find[t].pc = "written"

\* The id a thread has written and not marked yet is none that another one counts on.
Unmarked(id) == \E u \in Threads : Writes(u) /\ id \in find[u].wrote

\* What is found was there, what a search counts on is there, and what is there it has seen;
\* what a rebuild has in hand is a document.
ViewOK(f, D) ==
    /\ f.found \subseteq f.during
    /\ f.pc # "written" => Slots(D) \subseteq f.during /\ f.before \subseteq Slots(D)
    /\ f.pc = "written" => f.before = {}
    /\ f.pc = "enter" => f.held \in Slot

\* The exact phase has found or has ahead all that is equal to the query; a later phase
\* begins only when there is no such document.
ExactOK(f, D) ==
    /\ f.pc = "exact" =>
         /\ \A x \in f.found : x.text = f.query
         /\ \A x \in f.before : x.text = f.query =>
               x \in f.found \/ \E j \in 1..Len(D) : j > f.at /\ D[j] = x
         /\ ~f.disturbed => f.size = Size(D)
    /\ f.pc \notin {"exact", "written"} => \A x \in f.before : x.text # f.query

\* A rebuild that nobody overlaps with has indexed what its iterator has passed.
BuildOK(f, D, I) ==
    /\ f.pc \in {"build", "enter"} => f.size = Size(D)
    /\ f.pc = "build" => \A j \in 1..Len(D) : j <= f.at /\ D[j] # Hole =>
                            D[j] \in Slots(I) /\ D[j].text \in f.seen
    /\ f.pc = "enter" => /\ f.at \in 1..Len(D) /\ f.held = D[f.at] /\ f.held # Hole
                         /\ \A j \in 1..Len(D) : j < f.at /\ D[j] # Hole =>
                              D[j] \in Slots(I) /\ D[j].text \in f.seen
    /\ f.pc = "built" => \A x \in Slots(D) : x \in Slots(I) /\ x.text \in f.seen
    /\ f.pc # "clear" => Slots(I) \subseteq Slots(D)

\* The scoring loop has found or has ahead all that the search counts on.
ScoreOK(f, D, I, W) ==
    /\ IdsOf(I) \subseteq IdsOf(D)
    /\ \A x \in f.before :
         /\ x.text \in W
         /\ \E j \in 1..Len(I) :
              I[j] = x /\ (j > f.at \/ (<<f.query, x.text>> \in Near => x \in f.found))
    /\ ~f.disturbed => f.size = Size(I)

\* An index that is not dirty is one of all documents but those whose writer still has to
\* mark it.
IndexOK ==
    part = "knowledge" /\ ~suspect /\ ~dirty =>
        /\ IdsOf(index) \subseteq IdsOf(docs)
        /\ \A x \in Slots(docs) : Unmarked(x.id) \/ (x \in Slots(index) /\ x.text \in words)

SearchOK(t) ==
    /\ ViewOK(find[t], docs) /\ ExactOK(find[t], docs)
    /\ \A x \in find[t].before : ~Unmarked(x.id)
    /\ ~suspect /\ find[t].pc \in {"clear", "build", "enter", "built"} =>
         busy = {t} /\ dirty /\ BuildOK(find[t], docs, index)
    /\ ~suspect /\ find[t].pc = "score" => ScoreOK(find[t], docs, index, words)

SearchInv ==
    /\ KnowledgeTyped
    /\ \A x, y \in Slots(docs) : x.id = y.id => x = y
    /\ IndexOK
    /\ \A t \in Threads : IF In(t) THEN SearchOK(t) ELSE find[t] = NoFind

LEMMA SlotsAre ==
    ASSUME NEW s \in Places
    PROVE  /\ s \in [1..Len(s) -> Slot \cup {Hole}] /\ Len(s) \in Nat /\ DOMAIN s = 1..Len(s)
           /\ Slots(s) \subseteq Slot /\ Hole \notin Slot
           /\ \A x : x \in Slots(s) <=> x # Hole /\ \E j \in 1..Len(s) : s[j] = x
           /\ Size(s) \in Nat /\ (Size(s) = 0 <=> Slots(s) = {})
<1>1. s \in [1..Len(s) -> Slot \cup {Hole}] /\ Len(s) \in Nat /\ DOMAIN s = 1..Len(s)
  BY DEF Places
<1>2. Hole \notin Slot
  BY KnowledgeAssumption DEF Hole, Slot
<1>3. \A x : x \in Slots(s) <=> x # Hole /\ \E j \in 1..Len(s) : s[j] = x
  BY <1>1 DEF Slots
<1>4. Slots(s) \subseteq Slot
  BY <1>1, <1>3
<1>5. IsFiniteSet(Slots(s))
  <2>1. IsFiniteSet(1..Len(s))
    BY <1>1, FS_Interval
  <2>2. IsFiniteSet({s[j] : j \in 1..Len(s)})
    <3>1. s \in Surjection(1..Len(s), {s[j] : j \in 1..Len(s)})
      BY <1>1 DEF Surjection
    <3> QED BY <2>1, <3>1, FS_Surjection
  <2>3. Slots(s) \subseteq {s[j] : j \in 1..Len(s)}
    BY <1>3
  <2> QED BY <2>2, <2>3, FS_Subset
<1> QED BY <1>1, <1>2, <1>3, <1>4, <1>5, FS_CardinalityType, FS_EmptySet DEF Size

\* An entry x of a dictionary: its slot holds what it held, or it has a new one.
LEMMA UpsertIs ==
    ASSUME NEW s \in Places, NEW x \in Slot
    PROVE  /\ Upsert(s, x) \in Places /\ Len(Upsert(s, x)) >= Len(s)
           /\ \A y : y \in Slots(Upsert(s, x)) <=> y = x \/ (y \in Slots(s) /\ y.id # x.id)
           /\ \A j \in 1..Len(s) : s[j] # Hole /\ s[j].id # x.id => Upsert(s, x)[j] = s[j]
<1> DEFINE u == Upsert(s, x)
<1>1. /\ s \in [1..Len(s) -> Slot \cup {Hole}] /\ Len(s) \in Nat /\ DOMAIN s = 1..Len(s)
      /\ Slots(s) \subseteq Slot /\ Hole \notin Slot
      /\ \A y : y \in Slots(s) <=> y # Hole /\ \E j \in 1..Len(s) : s[j] = y
  BY SlotsAre
<1>2. Hole.id # x.id
  BY KnowledgeAssumption DEF Slot, Hole
<1>3. CASE Has(s, x.id)
  <2>1. u = [j \in 1..Len(s) |-> IF s[j].id = x.id THEN x ELSE s[j]]
    BY <1>1, <1>3 DEF Upsert
  <2>2. PICK k \in 1..Len(s) : s[k].id = x.id
    BY <1>1, <1>3 DEF Has
  <2> HIDE DEF u
  <2>3. u \in Seq(Slot \cup {Hole}) /\ Len(u) = Len(s)
    <3>1. u \in [1..Len(s) -> Slot \cup {Hole}]
      BY <1>1, <2>1
    <3> QED BY <1>1, <3>1, LenProperties, SeqDef
  <2>4. \A y : y \in Slots(u) <=> y # Hole /\ \E j \in 1..Len(s) : u[j] = y
    BY <2>3, SlotsAre DEF Places
  <2>5. u[k] = x
    BY <2>1, <2>2
  <2>6. \A y : y \in Slots(u) <=> y = x \/ (y \in Slots(s) /\ y.id # x.id)
    BY <1>1, <2>1, <2>4, <2>5
  <2> QED BY <1>1, <2>1, <2>3, <2>6 DEF u, Places
<1>4. CASE ~Has(s, x.id)
  <2>1. u = Append(s, x)
    BY <1>4 DEF Upsert
  <2> HIDE DEF u
  <2>2. /\ u \in Seq(Slot \cup {Hole}) /\ Len(u) = Len(s) + 1
        /\ u[Len(s) + 1] = x /\ \A j \in 1..Len(s) : u[j] = s[j]
    BY <1>1, <2>1 DEF Places
  <2>3. \A y : y \in Slots(u) <=> y # Hole /\ \E j \in 1..Len(u) : u[j] = y
    BY <2>2, SlotsAre DEF Places
  <2>4. \A y \in Slots(s) : y.id # x.id
    BY <1>4 DEF Has
  <2>5. \A y : y \in Slots(u) <=> y = x \/ y \in Slots(s)
    BY <1>1, <2>2, <2>3
  <2> QED BY <1>1, <2>2, <2>4, <2>5 DEF u, Places
<1> QED BY <1>3, <1>4

LEMMA WithoutIs ==
    ASSUME NEW s \in Places, NEW id \in Ids
    PROVE  /\ Without(s, id) \in Places /\ Len(Without(s, id)) = Len(s)
           /\ \A y : y \in Slots(Without(s, id)) <=> y \in Slots(s) /\ y.id # id
           /\ \A j \in 1..Len(s) : s[j] # Hole /\ s[j].id # id => Without(s, id)[j] = s[j]
<1> DEFINE u == Without(s, id)
<1>1. /\ s \in [1..Len(s) -> Slot \cup {Hole}] /\ Len(s) \in Nat /\ DOMAIN s = 1..Len(s)
      /\ Slots(s) \subseteq Slot /\ Hole \notin Slot
      /\ \A y : y \in Slots(s) <=> y # Hole /\ \E j \in 1..Len(s) : s[j] = y
  BY SlotsAre
<1>2. u = [j \in 1..Len(s) |-> IF s[j].id = id THEN Hole ELSE s[j]]
  BY <1>1 DEF Without
<1> HIDE DEF u
<1>3. u \in Seq(Slot \cup {Hole}) /\ Len(u) = Len(s)
  <2>1. u \in [1..Len(s) -> Slot \cup {Hole}]
    BY <1>1, <1>2
  <2> QED BY <1>1, <2>1, LenProperties, SeqDef
<1>4. \A y : y \in Slots(u) <=> y # Hole /\ \E j \in 1..Len(s) : u[j] = y
  BY <1>3, SlotsAre DEF Places
<1>5. \A y : y \in Slots(u) <=> y \in Slots(s) /\ y.id # id
  BY <1>1, <1>2, <1>4
<1> QED BY <1>2, <1>3, <1>5 DEF u, Places

\* The slot an iterator comes to next: only holes are between.
LEMMA NextIs ==
    ASSUME NEW s \in Places, NEW i \in Nat, Rest(s, i) # {}
    PROVE  LET n == Min(Rest(s, i)) IN
           /\ n \in 1..Len(s) /\ n > i /\ s[n] # Hole /\ s[n] \in Slots(s)
           /\ \A j \in 1..Len(s) : j > i /\ s[j] # Hole => j >= n
<1>1. /\ DOMAIN s = 1..Len(s) /\ Len(s) \in Nat
      /\ \A y : y \in Slots(s) <=> y # Hole /\ \E j \in 1..Len(s) : s[j] = y
  BY SlotsAre
<1>2. \A j : j \in Rest(s, i) <=> j \in 1..Len(s) /\ j > i /\ s[j] # Hole
  BY <1>1 DEF Rest
<1>3. Rest(s, i) \subseteq Nat
  BY <1>1, <1>2
<1>4. \E n \in Rest(s, i) : \A j \in Rest(s, i) : n <= j
  BY <1>3, LeastNat
<1>5. Min(Rest(s, i)) \in Rest(s, i) /\ \A j \in Rest(s, i) : Min(Rest(s, i)) <= j
  BY <1>4 DEF Min
<1> QED BY <1>1, <1>2, <1>5

LEMMA SearchInitially == Init => SearchInv
<1> SUFFICES ASSUME KnowledgeInit, SharedInit PROVE SearchInv
  BY DEF Init
<1>1. NoFind \in Finds /\ NoFind.pc = "exact" /\ NoFind.found = {}
  BY DEF NoFind, Finds, Held, Hole
<1>0. docs = << >> \/ \E z \in Slot : docs = <<z>>
  BY DEF KnowledgeInit, Initially
<1>2. KnowledgeTyped
  <2>1. docs \in Places
    <3>1. ASSUME NEW z \in Slot, docs = <<z>> PROVE docs \in Seq(Slot \cup {Hole})
      BY <3>1
    <3>2. << >> \in Seq(Slot \cup {Hole})
      OBVIOUS
    <3> QED BY <1>0, <3>1, <3>2 DEF Places
  <2>2. index \in Places
    <3>1. << >> \in Seq(Slot \cup {Hole})
      OBVIOUS
    <3> QED BY <3>1 DEF Places, KnowledgeInit
  <2> QED BY <1>1, <2>1, <2>2 DEF KnowledgeInit, KnowledgeTyped
<1>3. ASSUME NEW x \in Slots(docs), NEW y \in Slots(docs) PROVE x = y
  <2>2. Len(docs) <= 1
    <3>1. CASE docs = << >>
      BY <3>1
    <3>2. ASSUME NEW z \in Slot, docs = <<z>> PROVE Len(docs) <= 1
      BY <3>2
    <3> QED BY <1>0, <3>1, <3>2
  <2>3. PICK i \in 1..Len(docs), j \in 1..Len(docs) : docs[i] = x /\ docs[j] = y
    BY <1>2, SlotsAre DEF KnowledgeTyped
  <2>4. i = j
    BY <1>2, <2>2, SlotsAre DEF KnowledgeTyped
  <2> QED BY <2>3, <2>4
<1>4. IndexOK
  BY DEF IndexOK, KnowledgeInit
<1>5. \A t \in Threads : ~In(t) /\ find[t] = NoFind
  BY DEF In, SharedInit, KnowledgeInit
<1> QED BY <1>2, <1>3, <1>4, <1>5 DEF SearchInv

\* A rebuild with which another thread overlaps is one that is suspect.
LEMMA Overlaps ==
    ASSUME SearchInv, NEW t \in Threads, NEW u \in Threads, In(t), In(u), t # u,
           find[u].pc \in {"clear", "build", "enter", "built"}
    PROVE  suspect
BY DEF SearchInv, SearchOK, In

\* A step of thread t that changes no document leaves the others what they have: it changes
\* the index only when it rebuilds it, and then the others are suspect.
LEMMA OthersKeep ==
    ASSUME SearchInv, NEW t \in Threads, In(t), NEW f \in Finds,
           find' = [find EXCEPT ![t] = f], find[t].pc # "written",
           part' = part, docs' = docs, suspect' \in BOOLEAN, suspect => suspect',
           \/ busy' = busy /\ f.pc # "written"
           \/ busy' = busy \ {t} /\ f = NoFind,
           \/ UNCHANGED <<index, words, dirty>>
           \/ find[t].pc \in {"clear", "build", "enter", "built"}
    PROVE  /\ find' \in [Threads -> Finds] /\ find'[t] = f
           /\ \A u \in Threads \ {t} : IF In(u)' THEN SearchOK(u)' ELSE find'[u] = NoFind
           /\ \A id : Unmarked(id)' <=> Unmarked(id)
<1>1. find \in [Threads -> Finds]
  BY DEF SearchInv, KnowledgeTyped
<1>2. find' \in [Threads -> Finds] /\ find'[t] = f /\ \A u \in Threads \ {t} : find'[u] = find[u]
  BY <1>1
<1>3. ASSUME NEW id PROVE Unmarked(id)' <=> Unmarked(id)
  <2>1. ASSUME NEW u \in Threads
        PROVE  Writes(u)' /\ id \in find'[u].wrote <=> Writes(u) /\ id \in find[u].wrote
    <3>1. CASE u = t
      BY <1>2, <3>1 DEF Writes, In
    <3>2. CASE u # t
      BY <1>2, <3>2 DEF Writes, In
    <3> QED BY <3>1, <3>2
  <2> QED BY <2>1 DEF Unmarked
<1>4. ASSUME NEW u \in Threads \ {t} PROVE IF In(u)' THEN SearchOK(u)' ELSE find'[u] = NoFind
  <2>1. find'[u] = find[u] /\ (In(u)' <=> In(u))
    BY <1>2 DEF In
  <2>2. CASE ~In(u)
    BY <2>1, <2>2 DEF SearchInv
  <2>3. CASE In(u)
    <3>1. SearchOK(u)
      BY <2>3 DEF SearchInv
    <3>2. find[u].pc \in {"clear", "build", "enter", "built"} => suspect'
      BY <2>3, Overlaps
    <3>3. find[u].pc = "score" => suspect' \/ UNCHANGED <<index, words>>
      BY <2>3, Overlaps
    <3>4. \A x \in find'[u].before : ~Unmarked(x.id)'
      BY <1>3, <2>1, <3>1 DEF SearchOK
    <3>5. ViewOK(find'[u], docs') /\ ExactOK(find'[u], docs')
      BY <2>1, <3>1 DEF SearchOK
    <3>6. ~suspect' /\ find'[u].pc = "score" => ScoreOK(find'[u], docs', index', words')
      BY <2>1, <3>1, <3>3 DEF SearchOK
    <3>7. SearchOK(u)'
      BY <2>1, <3>2, <3>4, <3>5, <3>6 DEF SearchOK
    <3> QED BY <2>1, <2>3, <3>7
  <2> QED BY <2>2, <2>3
<1> QED BY <1>2, <1>3, <1>4

\* So such a step keeps the invariant when the thread itself is where it says it is.
LEMMA OwnKeeps ==
    ASSUME SearchInv, NEW t \in Threads, In(t), NEW f \in Finds,
           find' = [find EXCEPT ![t] = f], find[t].pc # "written",
           part' = part, docs' = docs, suspect' \in BOOLEAN, suspect => suspect',
           index' \in Places, words' \subseteq Texts, dirty' \in BOOLEAN,
           \/ busy' = busy \ {t} /\ f = NoFind
           \/ /\ busy' = busy /\ f.pc # "written" /\ f.before = find[t].before
              /\ ViewOK(f, docs) /\ ExactOK(f, docs)
              /\ ~suspect' /\ f.pc \in {"clear", "build", "enter", "built"} =>
                    busy = {t} /\ dirty' /\ BuildOK(f, docs, index')
              /\ ~suspect' /\ f.pc = "score" => ScoreOK(f, docs, index', words'),
           \/ UNCHANGED <<index, words, dirty>>
           \/ find[t].pc \in {"clear", "build", "enter", "built"} /\ IndexOK'
    PROVE  SearchInv'
<1>1. /\ find' \in [Threads -> Finds] /\ find'[t] = f
      /\ \A u \in Threads \ {t} : IF In(u)' THEN SearchOK(u)' ELSE find'[u] = NoFind
      /\ \A id : Unmarked(id)' <=> Unmarked(id)
  BY OthersKeep
<1>2. KnowledgeTyped'
  BY <1>1 DEF SearchInv, KnowledgeTyped
<1>3. \A x, y \in Slots(docs') : x.id = y.id => x = y
  BY DEF SearchInv
<1>4. IndexOK'
  <2>1. CASE UNCHANGED <<index, words, dirty>>
    <3> SUFFICES ASSUME part = "knowledge", ~suspect, ~dirty PROVE
            /\ IdsOf(index') \subseteq IdsOf(docs')
            /\ \A x \in Slots(docs') : Unmarked(x.id)' \/ (x \in Slots(index') /\ x.text \in words')
      BY <2>1 DEF IndexOK
    <3>1. /\ IdsOf(index) \subseteq IdsOf(docs)
          /\ \A x \in Slots(docs) : Unmarked(x.id) \/ (x \in Slots(index) /\ x.text \in words)
      BY DEF SearchInv, IndexOK
    <3> QED BY <1>1, <2>1, <3>1
  <2> QED BY <2>1
<1>5. IF In(t)' THEN SearchOK(t)' ELSE find'[t] = NoFind
  <2>1. CASE busy' = busy \ {t} /\ f = NoFind
    BY <1>1, <2>1 DEF In
  <2>2. CASE ~(busy' = busy \ {t} /\ f = NoFind)
    <3>1. In(t)'
      BY <2>2 DEF In
    <3>2. \A x \in find'[t].before : ~Unmarked(x.id)'
      BY <1>1, <2>2 DEF SearchInv, SearchOK
    <3>3. ViewOK(find'[t], docs') /\ ExactOK(find'[t], docs')
      BY <1>1, <2>2
    <3>4. ~suspect' /\ find'[t].pc \in {"clear", "build", "enter", "built"} =>
             busy' = {t} /\ dirty' /\ BuildOK(find'[t], docs', index')
      BY <1>1, <2>2
    <3>5. ~suspect' /\ find'[t].pc = "score" => ScoreOK(find'[t], docs', index', words')
      BY <1>1, <2>2
    <3>6. SearchOK(t)'
      BY <3>2, <3>3, <3>4, <3>5 DEF SearchOK
    <3> QED BY <3>1, <3>6
  <2> QED BY <2>1, <2>2
<1> QED BY <1>1, <1>2, <1>3, <1>4, <1>5 DEF SearchInv

LEMMA FoundKeeps ==
    ASSUME SearchInv, NEW t \in Threads, Found(t)
    PROVE  SearchInv'
<1>1. In(t) /\ find[t].pc # "written"
  BY DEF Found, Final, Raises, Within, In
<1>2. /\ busy' = busy \ {t} /\ part' = part /\ find' = [find EXCEPT ![t] = NoFind]
      /\ UNCHANGED <<docs, index, words, dirty, suspect>>
  BY DEF Found, Leave
<1>3. NoFind \in Finds
  BY DEF NoFind, Finds, Held, Hole
<1>4. KnowledgeTyped
  BY DEF SearchInv
<1> QED BY <1>1, <1>2, <1>3, <1>4, OwnKeeps DEF KnowledgeTyped

\* What the next place of an iterator is, when there is one.
LEMMA FollowingIs ==
    ASSUME SearchInv, NEW t \in Threads, MayGoOn(t)
    PROVE  LET s == Iterated(t)
               n == Following(t) IN
           /\ n \in 1..Len(s) /\ n > find[t].at /\ n \in Nat /\ s[n] # Hole /\ s[n] \in Slots(s)
           /\ s[n] \in Slot /\ \A j \in 1..Len(s) : j > find[t].at /\ s[j] # Hole => j >= n
<1>1. Iterated(t) \in Places /\ find[t].at \in Nat
  BY DEF SearchInv, KnowledgeTyped, Finds, Iterated
<1>2. Rest(Iterated(t), find[t].at) # {}
  BY DEF MayGoOn
<1> QED BY <1>1, <1>2, NextIs, SlotsAre DEF Following

LEMMA ExactKeeps ==
    ASSUME SearchInv, NEW t \in Threads, Exact(t)
    PROVE  SearchInv'
<1> DEFINE n == Following(t)
           x == docs[n]
           g == find[t]
           f == [g EXCEPT !.at = n, !.found = IF x.text = g.query THEN @ \cup {x} ELSE @]
<1>1. In(t) /\ g.pc = "exact" /\ MayGoOn(t) /\ UNCHANGED <<part, busy, docs, index, words, dirty, suspect>>
  BY DEF Exact, Within, In, sharedVars
<1>2. find' = [find EXCEPT ![t] = f]
  BY DEF Exact
<1>3. SearchOK(t) /\ KnowledgeTyped
  BY <1>1 DEF SearchInv
<1>4. /\ n \in 1..Len(docs) /\ n > g.at /\ n \in Nat /\ x # Hole /\ x \in Slots(docs) /\ x \in Slot
      /\ \A j \in 1..Len(docs) : j > g.at /\ docs[j] # Hole => j >= n
  BY <1>1, FollowingIs DEF Iterated
<1>5. g \in Finds
  BY <1>3 DEF KnowledgeTyped
<1> HIDE DEF n, x
<1>6. /\ f \in Finds /\ f.pc = "exact" /\ f.before = g.before /\ f.during = g.during
      /\ f.query = g.query /\ f.size = g.size /\ f.disturbed = g.disturbed /\ f.at = n
      /\ f.found = IF x.text = g.query THEN g.found \cup {x} ELSE g.found
  BY <1>1, <1>4, <1>5 DEF Finds
<1> HIDE DEF f
<1>7. ViewOK(g, docs) /\ ExactOK(g, docs)
  BY <1>3 DEF SearchOK
<1>8. ViewOK(f, docs)
  BY <1>1, <1>4, <1>6, <1>7 DEF ViewOK
<1>9. ExactOK(f, docs)
  <2>1. \A y \in f.found : y.text = f.query
    BY <1>1, <1>6, <1>7 DEF ExactOK
  <2>2. ASSUME NEW y \in f.before, y.text = f.query
        PROVE  y \in f.found \/ \E j \in 1..Len(docs) : j > f.at /\ docs[j] = y
    <3>1. y \in g.found \/ \E j \in 1..Len(docs) : j > g.at /\ docs[j] = y
      BY <1>1, <1>6, <1>7, <2>2 DEF ExactOK
    <3>2. ASSUME NEW j \in 1..Len(docs), j > g.at, docs[j] = y
          PROVE  j > n \/ y = x
      <4>1. y # Hole
        BY <1>1, <1>3, <1>6, <1>7, SlotsAre DEF ViewOK, KnowledgeTyped
      <4>2. j >= n
        BY <1>4, <3>2, <4>1
      <4> QED BY <1>4, <3>2, <4>2 DEF x
    <3> QED BY <1>6, <2>2, <3>1, <3>2
  <2> QED BY <1>1, <1>6, <1>7, <2>1, <2>2 DEF ExactOK
<1> QED BY <1>1, <1>2, <1>3, <1>6, <1>8, <1>9, OwnKeeps DEF KnowledgeTyped

LEMMA NothingFollows ==
    ASSUME SearchInv, NEW t \in Threads, AtEnd(t)
    PROVE  /\ find[t].size = Size(Iterated(t))
           /\ \A j \in 1..Len(Iterated(t)) : j > find[t].at => Iterated(t)[j] = Hole
<1>1. Iterated(t) \in Places
  BY DEF SearchInv, KnowledgeTyped, Iterated
<1> QED BY <1>1, SlotsAre DEF AtEnd, SameSize, Rest

LEMMA ToIndexKeeps ==
    ASSUME SearchInv, NEW t \in Threads, ToIndex(t)
    PROVE  SearchInv'
<1> DEFINE g == find[t]
           f == [g EXCEPT !.pc = IF dirty THEN "clear" ELSE "score", !.at = 0, !.size = Size(index)]
<1>1. /\ In(t) /\ g.pc = "exact" /\ AtEnd(t) /\ g.found = {}
      /\ UNCHANGED <<part, busy, docs, index, words, dirty>>
      /\ suspect' = (suspect \/ (dirty /\ Others(t) # {}))
  BY DEF ToIndex, Within, In, sharedVars
<1>2. find' = [find EXCEPT ![t] = f]
  BY DEF ToIndex
<1>3. SearchOK(t) /\ KnowledgeTyped /\ IndexOK
  BY <1>1 DEF SearchInv
<1>4. g \in Finds /\ docs \in Places /\ index \in Places /\ Size(index) \in Nat
  BY <1>3, SlotsAre DEF KnowledgeTyped
<1>5. /\ f \in Finds /\ f.pc = (IF dirty THEN "clear" ELSE "score") /\ f.before = g.before
      /\ f.during = g.during /\ f.found = {}
      /\ f.query = g.query /\ f.size = Size(index) /\ f.disturbed = g.disturbed /\ f.at = 0
  BY <1>1, <1>4 DEF Finds
<1> HIDE DEF f
<1>6. ViewOK(g, docs) /\ ExactOK(g, docs)
  BY <1>3 DEF SearchOK
<1>7. ViewOK(f, docs)
  BY <1>1, <1>5, <1>6 DEF ViewOK
<1>8. ExactOK(f, docs)
  <2>1. ASSUME NEW x \in f.before PROVE x.text # f.query
    <3>1. \A j \in 1..Len(docs) : j > g.at => docs[j] = Hole
      BY <1>1, NothingFollows DEF Iterated
    <3>2. x # Hole
      BY <1>1, <1>4, <1>5, <1>6, SlotsAre DEF ViewOK
    <3> QED BY <1>1, <1>5, <1>6, <3>1, <3>2 DEF ExactOK
  <2> QED BY <1>5, <2>1 DEF ExactOK
<1>9. ~suspect' /\ f.pc \in {"clear", "build", "enter", "built"} =>
         busy = {t} /\ dirty' /\ BuildOK(f, docs, index')
  <2> SUFFICES ASSUME ~suspect', f.pc \in {"clear", "build", "enter", "built"}
               PROVE  busy = {t} /\ dirty' /\ BuildOK(f, docs, index')
    OBVIOUS
  <2>1. dirty /\ f.pc = "clear" /\ Others(t) = {}
    BY <1>1, <1>5
  <2> QED BY <1>1, <2>1 DEF Others, In, BuildOK
<1>10. ~suspect' /\ f.pc = "score" => ScoreOK(f, docs, index', words')
  <2> SUFFICES ASSUME ~suspect', f.pc = "score" PROVE ScoreOK(f, docs, index, words)
    BY <1>1
  <2>1. ~dirty /\ ~suspect /\ part = "knowledge"
    BY <1>1, <1>5 DEF In
  <2>2. ASSUME NEW x \in f.before
        PROVE  x.text \in words /\ \E j \in 1..Len(index) : index[j] = x /\ j > 0
    <3>1. x \in Slots(docs) /\ ~Unmarked(x.id)
      BY <1>1, <1>3, <1>5, <1>6 DEF ViewOK, SearchOK
    <3>2. x \in Slots(index) /\ x.text \in words
      BY <1>3, <2>1, <3>1 DEF IndexOK
    <3> QED BY <1>4, <3>2, SlotsAre
  <2> QED BY <1>3, <1>5, <2>1, <2>2 DEF ScoreOK, IndexOK
<1>11. suspect' \in BOOLEAN
  BY <1>1, <1>3 DEF KnowledgeTyped
<1> QED BY <1>1, <1>2, <1>3, <1>5, <1>7, <1>8, <1>9, <1>10, <1>11, OwnKeeps DEF KnowledgeTyped

LEMMA EmptyPlaces == << >> \in Places /\ Slots(<< >>) = {} /\ Size(<< >>) = 0
<1>1. << >> \in Places
  BY DEF Places
<1> QED BY <1>1, SlotsAre

LEMMA ClearIndexKeeps ==
    ASSUME SearchInv, NEW t \in Threads, ClearIndex(t)
    PROVE  SearchInv'
<1> DEFINE g == find[t]
           f == IF Size(docs) = 0
                THEN [g EXCEPT !.pc = "score", !.at = 0, !.size = 0]
                ELSE [g EXCEPT !.pc = "build", !.at = 0, !.seen = {}, !.size = Size(docs)]
<1>1. /\ In(t) /\ g.pc = "clear" /\ UNCHANGED <<part, busy, docs, suspect>> /\ index' = << >>
      /\ IF Size(docs) = 0 THEN words' = {} /\ dirty' = FALSE ELSE UNCHANGED <<words, dirty>>
  BY DEF ClearIndex, Within, In, sharedVars
<1>2. find' = [find EXCEPT ![t] = f]
  BY DEF ClearIndex
<1>3. SearchOK(t) /\ KnowledgeTyped
  BY <1>1 DEF SearchInv
<1>4. g \in Finds /\ docs \in Places /\ Size(docs) \in Nat
  BY <1>3, SlotsAre DEF KnowledgeTyped
<1>5. /\ f \in Finds /\ f.pc = (IF Size(docs) = 0 THEN "score" ELSE "build") /\ f.before = g.before
      /\ f.during = g.during /\ f.found = g.found /\ f.query = g.query
      /\ f.size = Size(docs) /\ f.disturbed = g.disturbed /\ f.at = 0
  BY <1>4 DEF Finds
<1> HIDE DEF f
<1>6. ViewOK(f, docs) /\ ExactOK(f, docs)
  BY <1>1, <1>3, <1>5 DEF SearchOK, ViewOK, ExactOK
<1>7. ~suspect => busy = {t} /\ dirty
  BY <1>1, <1>3 DEF SearchOK
<1>8. f.pc \in {"clear", "build", "enter", "built"} => BuildOK(f, docs, index')
  BY <1>1, <1>4, <1>5, EmptyPlaces DEF BuildOK
<1>9. Size(docs) = 0 => Slots(docs) = {}
  BY <1>4, SlotsAre
<1>10. f.pc = "score" => ScoreOK(f, docs, index', words')
  <2>1. IdsOf(index') = {}
    BY <1>1, EmptyPlaces DEF IdsOf
  <2>2. f.pc = "score" => f.before = {} /\ f.size = 0
    BY <1>5, <1>6, <1>9 DEF ViewOK
  <2> QED BY <1>1, <2>1, <2>2, EmptyPlaces DEF ScoreOK
<1>11. IndexOK'
  BY <1>1, <1>7, <1>9, EmptyPlaces DEF IndexOK, IdsOf
<1>12. index' \in Places /\ words' \subseteq Texts /\ dirty' \in BOOLEAN /\ suspect' \in BOOLEAN
  BY <1>1, <1>3, EmptyPlaces DEF KnowledgeTyped
<1>13. ~suspect' /\ f.pc \in {"clear", "build", "enter", "built"} => dirty'
  BY <1>1, <1>5, <1>7
<1> QED BY <1>1, <1>2, <1>5, <1>6, <1>7, <1>8, <1>10, <1>11, <1>12, <1>13, OwnKeeps

LEMMA TakeNextKeeps ==
    ASSUME SearchInv, NEW t \in Threads, TakeNext(t)
    PROVE  SearchInv'
<1> DEFINE n == Following(t)
           g == find[t]
           x == docs[n]
           f == [g EXCEPT !.pc = "enter", !.at = n, !.held = x]
<1>1. /\ In(t) /\ g.pc = "build" /\ MayGoOn(t)
      /\ UNCHANGED <<part, busy, docs, index, words, dirty, suspect>>
  BY DEF TakeNext, Within, In, sharedVars
<1>2. find' = [find EXCEPT ![t] = f]
  BY DEF TakeNext
<1>3. SearchOK(t) /\ KnowledgeTyped
  BY <1>1 DEF SearchInv
<1>4. /\ n \in 1..Len(docs) /\ n > g.at /\ n \in Nat /\ x # Hole /\ x \in Slots(docs) /\ x \in Slot
      /\ \A j \in 1..Len(docs) : j > g.at /\ docs[j] # Hole => j >= n
  BY <1>1, FollowingIs DEF Iterated
<1>5. g \in Finds /\ g.at \in Nat
  BY <1>3 DEF KnowledgeTyped, Finds
<1>6. x \in Held
  BY <1>4 DEF Slot, Held
<1> HIDE DEF n, x
<1>7. /\ f \in Finds /\ f.pc = "enter" /\ f.before = g.before /\ f.during = g.during
      /\ f.found = g.found /\ f.seen = g.seen /\ f.held = x
      /\ f.query = g.query /\ f.size = g.size /\ f.disturbed = g.disturbed /\ f.at = n
  BY <1>4, <1>5, <1>6 DEF Finds
<1> HIDE DEF f
<1>8. ViewOK(f, docs) /\ ExactOK(f, docs)
  BY <1>1, <1>3, <1>4, <1>7 DEF SearchOK, ViewOK, ExactOK
<1>9. ~suspect => busy = {t} /\ dirty /\ BuildOK(g, docs, index)
  BY <1>1, <1>3 DEF SearchOK
<1>10. ~suspect => BuildOK(f, docs, index)
  <2> SUFFICES ASSUME ~suspect PROVE BuildOK(f, docs, index)
    OBVIOUS
  <2>1. ASSUME NEW j \in 1..Len(docs), j < n, docs[j] # Hole
        PROVE  docs[j] \in Slots(index) /\ docs[j].text \in f.seen
    <3>1. ~(j > g.at)
      BY <1>4, <2>1
    <3> QED BY <1>1, <1>5, <1>7, <1>9, <2>1, <3>1 DEF BuildOK
  <2> QED BY <1>1, <1>4, <1>7, <1>9, <2>1 DEF BuildOK, x
<1> QED BY <1>1, <1>2, <1>3, <1>7, <1>8, <1>9, <1>10, OwnKeeps DEF KnowledgeTyped

LEMMA IndexOneKeeps ==
    ASSUME SearchInv, NEW t \in Threads, IndexOne(t)
    PROVE  SearchInv'
<1> DEFINE g == find[t]
           x == g.held
           f == [g EXCEPT !.pc = "build", !.held = Hole, !.seen = @ \cup {x.text}]
<1>1. /\ In(t) /\ g.pc = "enter" /\ index' = Upsert(index, x)
      /\ UNCHANGED <<part, busy, docs, words, dirty, suspect>>
  BY DEF IndexOne, Within, In, sharedVars
<1>2. find' = [find EXCEPT ![t] = f]
  BY DEF IndexOne
<1>3. SearchOK(t) /\ KnowledgeTyped
  BY <1>1 DEF SearchInv
<1>4. x \in Slot /\ x.text \in Texts
  BY <1>1, <1>3 DEF SearchOK, ViewOK, Slot
<1>5. g \in Finds /\ g.at \in Nat /\ docs \in Places /\ index \in Places /\ Hole \in Held
  BY <1>3 DEF KnowledgeTyped, Finds, Hole, Held
<1>6. x = g.held
  OBVIOUS
<1> HIDE DEF x
<1>7. /\ f \in Finds /\ f.pc = "build" /\ f.before = g.before /\ f.during = g.during
      /\ f.found = g.found /\ f.seen = g.seen \cup {x.text} /\ f.at = g.at
      /\ f.query = g.query /\ f.size = g.size /\ f.disturbed = g.disturbed
  BY <1>4, <1>5 DEF Finds
<1> HIDE DEF f
<1>8. ViewOK(f, docs) /\ ExactOK(f, docs)
  BY <1>1, <1>3, <1>7 DEF SearchOK, ViewOK, ExactOK
<1>9. ~suspect => busy = {t} /\ dirty /\ BuildOK(g, docs, index)
  BY <1>1, <1>3 DEF SearchOK
<1>10. index' \in Places /\ \A y : y \in Slots(index') <=> y = x \/ (y \in Slots(index) /\ y.id # x.id)
  BY <1>1, <1>4, <1>5, UpsertIs
<1>11. ~suspect => BuildOK(f, docs, index')
  <2> SUFFICES ASSUME ~suspect PROVE BuildOK(f, docs, index')
    OBVIOUS
  <2>1. g.at \in 1..Len(docs) /\ x = docs[g.at] /\ x # Hole /\ x \in Slots(docs)
    BY <1>1, <1>5, <1>6, <1>9, SlotsAre DEF BuildOK
  <2>2. ASSUME NEW j \in 1..Len(docs), j <= f.at, docs[j] # Hole
        PROVE  docs[j] \in Slots(index') /\ docs[j].text \in f.seen
    <3>1. CASE j = g.at
      BY <1>7, <1>10, <2>1, <3>1
    <3>2. CASE j # g.at
      <4>1. j < g.at
        BY <1>5, <1>7, <2>2, <3>2
      <4>2. docs[j] \in Slots(index) /\ docs[j].text \in g.seen
        BY <1>1, <1>9, <2>2, <4>1 DEF BuildOK
      <4>3. docs[j] \in Slots(docs)
        BY <1>5, <2>2, SlotsAre
      <4>4. docs[j].id # x.id \/ docs[j] = x
        BY <2>1, <4>3 DEF SearchInv
      <4> QED BY <1>7, <1>10, <4>2, <4>4
    <3> QED BY <3>1, <3>2
  <2>3. Slots(index') \subseteq Slots(docs)
    BY <1>1, <1>9, <1>10, <2>1 DEF BuildOK
  <2> QED BY <1>1, <1>7, <1>9, <2>2, <2>3 DEF BuildOK
<1>12. IndexOK'
  BY <1>1, <1>9 DEF IndexOK
<1> QED BY <1>1, <1>2, <1>3, <1>7, <1>8, <1>9, <1>10, <1>11, <1>12, OwnKeeps DEF KnowledgeTyped

LEMMA LoopEndsKeeps ==
    ASSUME SearchInv, NEW t \in Threads, LoopEnds(t)
    PROVE  SearchInv'
<1> DEFINE g == find[t]
           f == [g EXCEPT !.pc = "built"]
<1>1. /\ In(t) /\ g.pc = "build" /\ AtEnd(t)
      /\ UNCHANGED <<part, busy, docs, index, words, dirty, suspect>>
  BY DEF LoopEnds, Within, In, sharedVars
<1>2. SearchOK(t) /\ KnowledgeTyped
  BY <1>1 DEF SearchInv
<1>3. find' = [find EXCEPT ![t] = f]
  BY <1>2 DEF LoopEnds, KnowledgeTyped
<1>4. g \in Finds /\ g.at \in Nat /\ docs \in Places
  BY <1>2 DEF KnowledgeTyped, Finds
<1>5. /\ f \in Finds /\ f.pc = "built" /\ f.before = g.before /\ f.during = g.during
      /\ f.found = g.found /\ f.seen = g.seen
      /\ f.query = g.query /\ f.size = g.size /\ f.disturbed = g.disturbed
  BY <1>4 DEF Finds
<1> HIDE DEF f
<1>6. ViewOK(f, docs) /\ ExactOK(f, docs)
  BY <1>1, <1>2, <1>5 DEF SearchOK, ViewOK, ExactOK
<1>7. ~suspect => busy = {t} /\ dirty /\ BuildOK(g, docs, index)
  BY <1>1, <1>2 DEF SearchOK
<1>8. ~suspect => BuildOK(f, docs, index)
  <2> SUFFICES ASSUME ~suspect PROVE BuildOK(f, docs, index)
    OBVIOUS
  <2>1. ASSUME NEW x \in Slots(docs) PROVE x \in Slots(index) /\ x.text \in f.seen
    <3>1. PICK j \in 1..Len(docs) : docs[j] = x /\ x # Hole
      BY <1>4, SlotsAre
    <3>2. ~(j > g.at)
      BY <1>1, <3>1, NothingFollows DEF Iterated
    <3>3. j <= g.at
      BY <1>4, <3>2
    <3> QED BY <1>1, <1>5, <1>7, <3>1, <3>3 DEF BuildOK
  <2> QED BY <1>1, <1>5, <1>7, <2>1 DEF BuildOK
<1> QED BY <1>1, <1>2, <1>3, <1>5, <1>6, <1>7, <1>8, OwnKeeps DEF KnowledgeTyped

LEMMA RebuiltKeeps ==
    ASSUME SearchInv, NEW t \in Threads, Rebuilt(t)
    PROVE  SearchInv'
<1> DEFINE g == find[t]
           f == [g EXCEPT !.pc = "score", !.at = 0, !.size = Size(index), !.seen = {}]
<1>1. /\ In(t) /\ g.pc = "built" /\ words' = g.seen /\ dirty' = FALSE
      /\ UNCHANGED <<part, busy, docs, index, suspect>>
  BY DEF Rebuilt, Within, In, sharedVars
<1>2. find' = [find EXCEPT ![t] = f]
  BY DEF Rebuilt
<1>3. SearchOK(t) /\ KnowledgeTyped
  BY <1>1 DEF SearchInv
<1>4. /\ g \in Finds /\ g.seen \subseteq Texts /\ docs \in Places /\ index \in Places
      /\ Size(index) \in Nat
  BY <1>3, SlotsAre DEF KnowledgeTyped, Finds
<1>5. /\ f \in Finds /\ f.pc = "score" /\ f.before = g.before /\ f.during = g.during
      /\ f.found = g.found /\ f.at = 0
      /\ f.query = g.query /\ f.size = Size(index) /\ f.disturbed = g.disturbed
  BY <1>4 DEF Finds
<1> HIDE DEF f
<1>6. ViewOK(f, docs) /\ ExactOK(f, docs)
  BY <1>1, <1>3, <1>5 DEF SearchOK, ViewOK, ExactOK
<1>7. ~suspect => busy = {t} /\ BuildOK(g, docs, index)
  BY <1>1, <1>3 DEF SearchOK
<1>8. ~suspect => /\ IdsOf(index) \subseteq IdsOf(docs)
                  /\ \A x \in Slots(docs) : x \in Slots(index) /\ x.text \in words'
  BY <1>1, <1>7 DEF BuildOK, IdsOf
<1>9. IndexOK'
  BY <1>1, <1>8 DEF IndexOK
<1>10. ~suspect => ScoreOK(f, docs, index, words')
  <2> SUFFICES ASSUME ~suspect PROVE ScoreOK(f, docs, index, words')
    OBVIOUS
  <2>1. ASSUME NEW x \in f.before
        PROVE  x.text \in words' /\ \E j \in 1..Len(index) : index[j] = x /\ j > 0
    <3>1. x \in Slots(index) /\ x.text \in words'
      BY <1>5, <1>6, <1>8 DEF ViewOK
    <3> QED BY <1>4, <3>1, SlotsAre
  <2> QED BY <1>5, <1>8, <2>1 DEF ScoreOK
<1>11. dirty' \in BOOLEAN /\ suspect' \in BOOLEAN
  BY <1>1, <1>3 DEF KnowledgeTyped
<1> QED BY <1>1, <1>2, <1>4, <1>5, <1>6, <1>9, <1>10, <1>11, OwnKeeps

LEMMA ScoreKeeps ==
    ASSUME SearchInv, NEW t \in Threads, Score(t)
    PROVE  SearchInv'
<1> DEFINE n == Following(t)
           g == find[t]
           x == index[n]
           more == {y \in Slots(docs) : y.id = x.id}
<1>1. /\ In(t) /\ g.pc = "score" /\ MayGoOn(t)
      /\ UNCHANGED <<part, busy, docs, index, words, dirty, suspect>>
  BY DEF Score, Within, In, sharedVars
<1>2. PICK positive \in Scores(g.query, x.text) :
         find' = [find EXCEPT ![t] =
                    [g EXCEPT !.at = n, !.found = IF positive THEN @ \cup more ELSE @]]
  BY DEF Score
<1> DEFINE f == [g EXCEPT !.at = n, !.found = IF positive THEN @ \cup more ELSE @]
<1>3. SearchOK(t) /\ KnowledgeTyped
  BY <1>1 DEF SearchInv
<1>4. /\ n \in 1..Len(index) /\ n > g.at /\ n \in Nat /\ x # Hole
      /\ \A j \in 1..Len(index) : j > g.at /\ index[j] # Hole => j >= n
  BY <1>1, FollowingIs DEF Iterated
<1>5. g \in Finds /\ g.at \in Nat /\ docs \in Places /\ more \subseteq Slots(docs) /\ more \subseteq Slot
  BY <1>3, SlotsAre DEF KnowledgeTyped, Finds
<1>6. x = index[n] /\ \A y \in Slots(docs) : y.id = x.id => y \in more
  OBVIOUS
<1>7. <<g.query, x.text>> \in Near /\ x.text \in words => positive
  BY <1>2 DEF Scores
<1>8. find' = [find EXCEPT ![t] = f]
  BY <1>2
<1> HIDE DEF n, x, more
<1>9. /\ f \in Finds /\ f.pc = "score" /\ f.before = g.before /\ f.during = g.during /\ f.at = n
      /\ f.query = g.query /\ f.size = g.size /\ f.disturbed = g.disturbed
      /\ f.found = IF positive THEN g.found \cup more ELSE g.found
  BY <1>1, <1>4, <1>5 DEF Finds
<1> HIDE DEF f
<1>10. ViewOK(f, docs) /\ ExactOK(f, docs)
  BY <1>1, <1>3, <1>5, <1>9 DEF SearchOK, ViewOK, ExactOK
<1>11. ~suspect => ScoreOK(g, docs, index, words)
  BY <1>1, <1>3 DEF SearchOK
<1>12. ~suspect => ScoreOK(f, docs, index, words)
  <2> SUFFICES ASSUME ~suspect PROVE ScoreOK(f, docs, index, words)
    OBVIOUS
  <2>1. ASSUME NEW y \in f.before
        PROVE  /\ y.text \in words
               /\ \E j \in 1..Len(index) :
                    index[j] = y /\ (j > n \/ (<<f.query, y.text>> \in Near => y \in f.found))
    <3>1. PICK j \in 1..Len(index) :
             index[j] = y /\ (j > g.at \/ (<<g.query, y.text>> \in Near => y \in g.found))
      BY <1>9, <1>11, <2>1 DEF ScoreOK
    <3>2. y.text \in words
      BY <1>9, <1>11, <2>1 DEF ScoreOK
    <3>3. y \in Slots(docs) /\ y # Hole
      BY <1>5, <1>9, <1>10, <2>1, SlotsAre DEF ViewOK
    <3>4. CASE j = n
      BY <1>6, <1>7, <1>9, <3>1, <3>2, <3>3, <3>4
    <3>5. CASE j # n
      <4>1. j > n \/ ~(j > g.at)
        BY <1>4, <3>1, <3>3, <3>5
      <4> QED BY <1>9, <3>1, <3>2, <4>1
    <3> QED BY <3>4, <3>5
  <2> QED BY <1>9, <1>11, <2>1 DEF ScoreOK
<1> QED BY <1>1, <1>3, <1>8, <1>9, <1>10, <1>12, OwnKeeps DEF KnowledgeTyped

LEMMA SearchKeeps ==
    ASSUME SearchInv, NEW t \in Threads, NEW q \in Texts, Search(t, q)
    PROVE  SearchInv'
<1> DEFINE counts == {x \in Slots(docs) : \A u \in Threads : x.id \notin find[u].wrote}
           f == [NoFind EXCEPT !.query = q, !.size = Size(docs), !.during = Slots(docs),
                               !.before = counts]
<1>1. /\ part = "knowledge" /\ t \notin busy /\ part' = part /\ busy' = busy \cup {t}
      /\ suspect' = (suspect \/ \E u \in Threads : Rebuilding(u))
      /\ UNCHANGED <<docs, index, words, dirty>>
  BY DEF Search, Enter, MayCall
<1>2. find' = [find EXCEPT ![t] = f]
  BY DEF Search
<1>3. KnowledgeTyped /\ IndexOK
  BY DEF SearchInv
<1>4. /\ docs \in Places /\ Size(docs) \in Nat /\ Slots(docs) \subseteq Slot /\ counts \subseteq Slots(docs)
      /\ find \in [Threads -> Finds]
      /\ \A y : y \in Slots(docs) <=> y # Hole /\ \E j \in 1..Len(docs) : docs[j] = y
      /\ DOMAIN docs = 1..Len(docs)
  BY <1>3, SlotsAre DEF KnowledgeTyped
<1>5. \A x \in counts : ~Unmarked(x.id)
  BY DEF Unmarked, Writes, In, Within
<1> HIDE DEF counts
<1>6. /\ f \in Finds /\ f.pc = "exact" /\ f.before = counts /\ f.during = Slots(docs)
      /\ f.found = {} /\ f.query = q /\ f.size = Size(docs) /\ f.at = 0
  BY <1>4 DEF Finds, NoFind, Held, Hole
<1> HIDE DEF f
<1>7. find' \in [Threads -> Finds] /\ find'[t] = f /\ \A u \in Threads \ {t} : find'[u] = find[u]
  BY <1>2, <1>4, <1>6
<1>8. \A u \in Threads : (Writes(u)' <=> Writes(u)) /\ (Writes(u) => find'[u] = find[u])
  BY <1>1, <1>6, <1>7 DEF Writes, In
<1>9. \A id : Unmarked(id)' <=> Unmarked(id)
  BY <1>8 DEF Unmarked
<1>10. KnowledgeTyped'
  BY <1>1, <1>3, <1>7 DEF KnowledgeTyped
<1>11. IndexOK'
  <2> SUFFICES ASSUME ~suspect, ~dirty PROVE
          /\ IdsOf(index) \subseteq IdsOf(docs)
          /\ \A x \in Slots(docs) : Unmarked(x.id)' \/ (x \in Slots(index) /\ x.text \in words)
    BY <1>1 DEF IndexOK
  <2> QED BY <1>1, <1>3, <1>9 DEF IndexOK
<1>12. ASSUME NEW u \in Threads PROVE IF In(u)' THEN SearchOK(u)' ELSE find'[u] = NoFind
  <2>1. CASE u = t
    <3>1. ViewOK(f, docs)
      BY <1>4, <1>6 DEF ViewOK
    <3>2. ExactOK(f, docs)
      <4>1. \A x \in counts : \E j \in 1..Len(docs) : j > 0 /\ docs[j] = x
        BY <1>4
      <4> QED BY <1>6, <4>1 DEF ExactOK
    <3>3. SearchOK(u)'
      BY <1>1, <1>5, <1>6, <1>7, <1>9, <2>1, <3>1, <3>2 DEF SearchOK
    <3> QED BY <1>1, <2>1, <3>3 DEF In
  <2>2. CASE u # t
    <3>1. find'[u] = find[u] /\ (In(u)' <=> In(u))
      BY <1>1, <1>7, <2>2 DEF In
    <3>2. CASE ~In(u)
      BY <3>1, <3>2 DEF SearchInv
    <3>3. CASE In(u)
      <4>1. SearchOK(u)
        BY <3>3 DEF SearchInv
      <4>2. find[u].pc \in {"clear", "build", "enter", "built"} => suspect'
        BY <1>1, <3>3 DEF Rebuilding, Within, In
      <4>3. \A x \in find'[u].before : ~Unmarked(x.id)'
        BY <1>9, <3>1, <4>1 DEF SearchOK
      <4>4. SearchOK(u)'
        BY <1>1, <3>1, <4>1, <4>2, <4>3 DEF SearchOK
      <4> QED BY <3>1, <3>3, <4>4
    <3> QED BY <3>2, <3>3
  <2> QED BY <2>1, <2>2
<1>13. \A x, y \in Slots(docs') : x.id = y.id => x = y
  BY <1>1 DEF SearchInv
<1> QED BY <1>10, <1>11, <1>12, <1>13 DEF SearchInv

LEMMA MarkDirtyKeeps ==
    ASSUME SearchInv, NEW t \in Threads, MarkDirty(t)
    PROVE  SearchInv'
<1>1. /\ In(t) /\ find[t].pc = "written" /\ part' = part /\ busy' = busy \ {t} /\ dirty' = TRUE
      /\ find' = [find EXCEPT ![t] = NoFind]
      /\ suspect' = (suspect /\ busy \ {t} # {})
      /\ UNCHANGED <<docs, index, words>>
  BY DEF MarkDirty, Within, In, Leave, Others
<1>2. NoFind \in Finds
  BY DEF NoFind, Finds, Held, Hole
<1>3. KnowledgeTyped
  BY DEF SearchInv
<1>4. find' \in [Threads -> Finds] /\ find'[t] = NoFind /\ \A u \in Threads \ {t} : find'[u] = find[u]
  BY <1>1, <1>2, <1>3 DEF KnowledgeTyped
<1>5. KnowledgeTyped'
  BY <1>1, <1>3, <1>4 DEF KnowledgeTyped
<1>6. IndexOK'
  BY <1>1 DEF IndexOK
<1>7. \A id : Unmarked(id)' => Unmarked(id)
  BY <1>1, <1>4 DEF Unmarked, Writes, In
<1>8. ASSUME NEW u \in Threads PROVE IF In(u)' THEN SearchOK(u)' ELSE find'[u] = NoFind
  <2>1. CASE u = t
    BY <1>1, <1>4, <2>1 DEF In
  <2>2. CASE u # t
    <3>1. find'[u] = find[u] /\ (In(u)' <=> In(u))
      BY <1>1, <1>4, <2>2 DEF In
    <3>2. CASE ~In(u)
      BY <3>1, <3>2 DEF SearchInv
    <3>3. CASE In(u)
      <4>1. SearchOK(u)
        BY <3>3 DEF SearchInv
      <4>2. suspect' = suspect
        BY <1>1, <1>3, <2>2, <3>3 DEF In, KnowledgeTyped
      <4>3. find[u].pc \in {"clear", "build", "enter", "built"} => suspect'
        BY <1>1, <2>2, <3>3, <4>2, Overlaps
      <4>4. \A x \in find'[u].before : ~Unmarked(x.id)'
        BY <1>7, <3>1, <4>1 DEF SearchOK
      <4>5. SearchOK(u)'
        BY <1>1, <3>1, <4>1, <4>2, <4>3, <4>4 DEF SearchOK
      <4> QED BY <3>1, <3>3, <4>5
    <3> QED BY <3>2, <3>3
  <2> QED BY <2>1, <2>2
<1>9. \A x, y \in Slots(docs') : x.id = y.id => x = y
  BY <1>1 DEF SearchInv
<1> QED BY <1>5, <1>6, <1>8, <1>9 DEF SearchInv

\* A thread t that writes the id, of which the documents are now those in now: the others
\* see it, and count on it no more.
LEMMA WriteKeeps ==
    ASSUME SearchInv, NEW t \in Threads, NEW id \in Ids, NEW now \in SUBSET Slot,
           Enter(t, "knowledge") \/ GoesOn(t), Written(t, id, now),
           docs' \in Places, index' \in Places, Len(docs') >= Len(docs), Len(index') >= Len(index),
           \A y, z \in now : y.id = id /\ y = z,
           \A y : y \in Slots(docs') <=> y \in now \/ (y \in Slots(docs) /\ y.id # id),
           \A y : y \in Slots(index') => y \in Slots(index) /\ (y.id # id \/ now # {}),
           \A y : y \in Slots(index) /\ y.id # id => y \in Slots(index'),
           \A j \in 1..Len(docs) : docs[j] # Hole /\ docs[j].id # id => docs'[j] = docs[j],
           \A j \in 1..Len(index) : index[j] # Hole /\ index[j].id # id => index'[j] = index[j]
    PROVE  SearchInv'
<1>1. /\ part = "knowledge" /\ part' = part /\ busy' = busy \cup {t}
      /\ t \notin busy \/ find[t].pc = "written"
      /\ find' = Seen(t, id, now) /\ UNCHANGED <<words, dirty>>
      /\ suspect' = (suspect \/ \E u \in Threads : Rebuilding(u))
  BY DEF Enter, MayCall, GoesOn, Within, Written
<1>2. KnowledgeTyped /\ IndexOK
  BY DEF SearchInv
<1>3. /\ find \in [Threads -> Finds] /\ docs \in Places /\ index \in Places
      /\ Len(docs) \in Nat /\ Len(index) \in Nat /\ Len(docs') \in Nat /\ Len(index') \in Nat
  BY <1>2, SlotsAre DEF KnowledgeTyped
<1>4. Hole \notin Slots(docs) /\ Hole \notin Slots(index)
  BY DEF Slots
<1> DEFINE more == now # {}
           mine == [find[t] EXCEPT !.pc = "written", !.wrote = @ \cup {id}, !.adds = more]
           Other(g) == [g EXCEPT !.before = {x \in @ : x.id # id}, !.during = @ \cup now,
                                 !.disturbed = TRUE]
<1>5. /\ mine \in Finds /\ mine.pc = "written" /\ mine.wrote = find[t].wrote \cup {id}
      /\ mine.found \subseteq mine.during /\ mine.before = {}
      /\ ~Writes(t) => find[t].wrote = {}
  <2> more \in BOOLEAN
    OBVIOUS
  <2> HIDE DEF more
  <2> find[t] \in Finds
    BY <1>3
  <2>1. /\ mine \in Finds /\ mine.pc = "written" /\ mine.wrote = find[t].wrote \cup {id}
        /\ mine.found = find[t].found /\ mine.during = find[t].during /\ mine.before = find[t].before
    BY DEF Finds
  <2>2. CASE t \notin busy
    <3>1. find[t] = NoFind
      BY <2>2 DEF SearchInv, In
    <3> QED BY <2>1, <3>1 DEF NoFind
  <2>3. CASE t \in busy /\ find[t].pc = "written"
    <3>1. ViewOK(find[t], docs) /\ Writes(t)
      BY <1>1, <2>3 DEF SearchInv, SearchOK, In, Writes
    <3> QED BY <2>1, <2>3, <3>1 DEF ViewOK
  <2> QED BY <1>1, <2>2, <2>3
<1>6. ASSUME NEW g \in Finds
      PROVE  /\ Other(g) \in Finds /\ Other(g).pc = g.pc /\ Other(g).query = g.query
             /\ Other(g).at = g.at /\ Other(g).held = g.held /\ Other(g).found = g.found
             /\ Other(g).wrote = g.wrote
             /\ Other(g).before = {x \in g.before : x.id # id}
             /\ Other(g).during = g.during \cup now /\ Other(g).disturbed
  BY DEF Finds
<1>7. find' = [u \in Threads |-> IF u = t THEN mine
                                 ELSE IF u \notin busy \/ find[u].pc = "written" THEN find[u]
                                 ELSE Other(find[u])]
  BY <1>1 DEF Seen
<1> HIDE DEF more, mine, Other
<1>8. find' \in [Threads -> Finds] /\ find'[t] = mine
  BY <1>3, <1>5, <1>6, <1>7
<1>9. ASSUME NEW u \in Threads \ {t}
      PROVE  find'[u] = IF u \notin busy \/ find[u].pc = "written" THEN find[u] ELSE Other(find[u])
  BY <1>7
<1>10. ASSUME NEW u \in Threads, u # t
       PROVE  (Writes(u)' <=> Writes(u)) /\ find'[u].wrote = find[u].wrote
  BY <1>1, <1>3, <1>6, <1>9, <1>10 DEF Writes, In
<1>11. Writes(t)'
  BY <1>1, <1>5, <1>8 DEF Writes, In
<1>12. \A i : Unmarked(i)' <=> Unmarked(i) \/ i = id
  <2>1. \A i : i \in mine.wrote <=> i \in find[t].wrote \/ i = id
    BY <1>5
  <2>2. \A i : i \in find[t].wrote => Writes(t)
    BY <1>5
  <2>3. \A u \in Threads \ {t} : (Writes(u)' <=> Writes(u)) /\ find'[u].wrote = find[u].wrote
    BY <1>10
  <2> QED BY <1>8, <1>11, <2>1, <2>2, <2>3 DEF Unmarked
<1>13. KnowledgeTyped'
  BY <1>1, <1>2, <1>8 DEF KnowledgeTyped
<1>14. \A x, y \in Slots(docs') : x.id = y.id => x = y
  BY DEF SearchInv
<1>15. IdsOf(index) \subseteq IdsOf(docs) => IdsOf(index') \subseteq IdsOf(docs')
  <2> SUFFICES ASSUME IdsOf(index) \subseteq IdsOf(docs) PROVE IdsOf(index') \subseteq IdsOf(docs')
    OBVIOUS
  <2>1. ASSUME NEW y \in Slots(index') PROVE \E z \in Slots(docs') : z.id = y.id
    <3>1. CASE y.id = id
      <4>1. PICK z \in now : z.id = id
        BY <3>1
      <4> QED BY <3>1, <4>1
    <3>2. CASE y.id # id
      <4>1. y.id \in IdsOf(docs)
        BY DEF IdsOf
      <4>2. PICK z \in Slots(docs) : z.id = y.id
        BY <4>1 DEF IdsOf
      <4> QED BY <3>2, <4>2
    <3> QED BY <3>1, <3>2
  <2> QED BY <2>1 DEF IdsOf
<1>16. IndexOK'
  <2> SUFFICES ASSUME ~suspect, ~dirty PROVE
          /\ IdsOf(index') \subseteq IdsOf(docs')
          /\ \A x \in Slots(docs') : Unmarked(x.id)' \/ (x \in Slots(index') /\ x.text \in words)
    BY <1>1 DEF IndexOK
  <2>1. ASSUME NEW x \in Slots(docs') PROVE Unmarked(x.id)' \/ (x \in Slots(index') /\ x.text \in words)
    <3>1. CASE x.id = id
      BY <1>12, <3>1
    <3>2. CASE x.id # id
      BY <1>1, <1>2, <1>12, <3>2 DEF IndexOK
    <3> QED BY <3>1, <3>2
  <2> QED BY <1>1, <1>2, <1>15, <2>1 DEF IndexOK
<1>17. ASSUME NEW u \in Threads PROVE IF In(u)' THEN SearchOK(u)' ELSE find'[u] = NoFind
  <2>1. CASE u = t
    <3>1. ViewOK(mine, docs') /\ ExactOK(mine, docs')
      BY <1>5 DEF ViewOK, ExactOK
    <3>2. SearchOK(u)'
      BY <1>5, <1>8, <2>1, <3>1 DEF SearchOK
    <3> QED BY <1>1, <2>1, <3>2 DEF In
  <2>2. CASE u # t /\ ~In(u)
    <3>1. find'[u] = find[u] /\ ~In(u)'
      BY <1>1, <1>9, <2>2 DEF In
    <3> QED BY <2>2, <3>1 DEF SearchInv
  <2>3. CASE u # t /\ In(u) /\ find[u].pc = "written"
    <3>1. SearchOK(u) /\ find'[u] = find[u] /\ In(u)'
      BY <1>1, <1>9, <2>3 DEF In, SearchInv
    <3>2. ViewOK(find[u], docs') /\ ExactOK(find[u], docs') /\ find[u].before = {}
      BY <2>3, <3>1 DEF SearchOK, ViewOK, ExactOK
    <3>3. SearchOK(u)'
      BY <2>3, <3>1, <3>2 DEF SearchOK
    <3> QED BY <3>1, <3>3
  <2>4. CASE u # t /\ In(u) /\ find[u].pc # "written"
    <3> DEFINE g == find[u]
               f == find'[u]
    <3>1. SearchOK(u) /\ f = Other(g) /\ In(u)' /\ g \in Finds
      BY <1>1, <1>3, <1>9, <2>4 DEF In, SearchInv
    <3> HIDE DEF g, f
    <3>2. /\ f.pc = g.pc /\ f.query = g.query /\ f.at = g.at /\ f.held = g.held /\ f.found = g.found
          /\ f.before = {x \in g.before : x.id # id} /\ f.during = g.during \cup now /\ f.disturbed
      BY <1>6, <3>1
    <3>3. ViewOK(g, docs) /\ ExactOK(g, docs) /\ (\A x \in g.before : ~Unmarked(x.id))
      BY <3>1 DEF SearchOK, g
    <3>4. ViewOK(f, docs')
      BY <2>4, <3>2, <3>3 DEF ViewOK, g
    <3>5. ExactOK(f, docs')
      <4>1. ASSUME NEW x \in f.before, f.pc = "exact", x.text = f.query
            PROVE  x \in f.found \/ \E j \in 1..Len(docs') : j > f.at /\ docs'[j] = x
        <5>1. x \in g.found \/ \E j \in 1..Len(docs) : j > g.at /\ docs[j] = x
          BY <3>2, <3>3, <4>1 DEF ExactOK
        <5>2. x # Hole /\ x.id # id
          BY <1>4, <2>4, <3>2, <3>3, <4>1 DEF ViewOK, g
        <5> QED BY <1>3, <3>2, <5>1, <5>2
      <4> QED BY <3>2, <3>3, <4>1 DEF ExactOK
    <3>6. \A x \in f.before : ~Unmarked(x.id)'
      BY <1>12, <3>2, <3>3
    <3>7. g.pc \in {"clear", "build", "enter", "built"} => suspect'
      BY <1>1, <2>4 DEF Rebuilding, Within, In, g
    <3>8. ~suspect' /\ f.pc = "score" => ScoreOK(f, docs', index', words')
      <4> SUFFICES ASSUME ~suspect', g.pc = "score" PROVE ScoreOK(f, docs', index', words)
        BY <1>1, <3>2
      <4>1. ScoreOK(g, docs, index, words)
        BY <1>1, <3>1 DEF SearchOK, g
      <4>2. ASSUME NEW x \in f.before
            PROVE  /\ x.text \in words
                   /\ \E j \in 1..Len(index') :
                        index'[j] = x /\ (j > f.at \/ (<<f.query, x.text>> \in Near => x \in f.found))
        <5>1. x \in g.before /\ x.id # id
          BY <3>2
        <5>2. x # Hole
          BY <1>4, <2>4, <3>3, <5>1 DEF ViewOK, g
        <5>3. PICK j \in 1..Len(index) :
                 index[j] = x /\ (j > g.at \/ (<<g.query, x.text>> \in Near => x \in g.found))
          BY <4>1, <5>1 DEF ScoreOK
        <5>4. j \in 1..Len(index') /\ index'[j] = x
          BY <1>3, <5>1, <5>2, <5>3
        <5> QED BY <3>2, <4>1, <5>1, <5>3, <5>4 DEF ScoreOK
      <4> QED BY <1>15, <3>2, <4>1, <4>2 DEF ScoreOK
    <3>9. SearchOK(u)'
      BY <3>2, <3>4, <3>5, <3>6, <3>7, <3>8 DEF SearchOK, f
    <3> QED BY <3>1, <3>9
  <2> QED BY <2>1, <2>2, <2>3, <2>4
<1> QED BY <1>13, <1>14, <1>16, <1>17 DEF SearchInv

LEMMA AddKeeps ==
    ASSUME SearchInv, NEW t \in Threads, NEW x \in Slot, Add(t, x)
    PROVE  SearchInv'
<1>1. /\ Enter(t, "knowledge") \/ GoesOn(t)
      /\ docs' = Upsert(docs, x) /\ Written(t, x.id, {x}) /\ index' = index
  BY DEF Add
<1>2. docs \in Places /\ index \in Places /\ Len(index) \in Nat
  BY SlotsAre DEF SearchInv, KnowledgeTyped
<1>3. x.id \in Ids /\ {x} \in SUBSET Slot
  BY DEF Slot
<1>4. /\ docs' \in Places /\ Len(docs') >= Len(docs)
      /\ \A y : y \in Slots(docs') <=> y \in {x} \/ (y \in Slots(docs) /\ y.id # x.id)
      /\ \A j \in 1..Len(docs) : docs[j] # Hole /\ docs[j].id # x.id => docs'[j] = docs[j]
  BY <1>1, <1>2, UpsertIs
<1>5. /\ index' \in Places /\ Len(index') >= Len(index)
      /\ \A j \in 1..Len(index) : index[j] # Hole /\ index[j].id # x.id => index'[j] = index[j]
      /\ \A y : y \in Slots(index') => y \in Slots(index) /\ (y.id # x.id \/ {x} # {})
      /\ \A y : y \in Slots(index) /\ y.id # x.id => y \in Slots(index')
  BY <1>1, <1>2
<1>6. \A y, z \in {x} : y.id = x.id /\ y = z
  OBVIOUS
<1> QED BY <1>1, <1>3, <1>4, <1>5, <1>6, WriteKeeps

LEMMA DeleteKeeps ==
    ASSUME SearchInv, NEW t \in Threads, NEW id \in Ids, Delete(t, id)
    PROVE  SearchInv'
<1>1. /\ Enter(t, "knowledge") /\ docs' = Without(docs, id) /\ index' = Without(index, id)
      /\ Written(t, id, {})
  BY DEF Delete
<1>2. docs \in Places /\ index \in Places /\ Len(index) \in Nat /\ Len(docs) \in Nat
  BY SlotsAre DEF SearchInv, KnowledgeTyped
<1>3. /\ docs' \in Places /\ Len(docs') >= Len(docs)
      /\ \A y : y \in Slots(docs') <=> y \in {} \/ (y \in Slots(docs) /\ y.id # id)
      /\ \A j \in 1..Len(docs) : docs[j] # Hole /\ docs[j].id # id => docs'[j] = docs[j]
  <2>1. docs' = Without(docs, id)
    BY <1>1
  <2> QED BY <1>2, <2>1, WithoutIs
<1>4. /\ index' \in Places /\ Len(index') >= Len(index)
      /\ \A j \in 1..Len(index) : index[j] # Hole /\ index[j].id # id => index'[j] = index[j]
      /\ \A y : y \in Slots(index') => y \in Slots(index) /\ (y.id # id \/ {} # {})
      /\ \A y : y \in Slots(index) /\ y.id # id => y \in Slots(index')
  BY <1>1, <1>2, WithoutIs
<1>5. {} \in SUBSET Slot /\ \A y, z \in {} : y.id = id /\ y = z
  OBVIOUS
<1> QED BY <1>1, <1>3, <1>4, <1>5, WriteKeeps

LEMMA SearchStep == SearchInv /\ [Next]_vars => SearchInv'
<1> SUFFICES ASSUME SearchInv, [Next]_vars PROVE SearchInv'
  OBVIOUS
<1>1. CASE KnowledgeNext
  BY <1>1, SearchKeeps, AddKeeps, DeleteKeeps, ExactKeeps, ToIndexKeeps, ClearIndexKeeps,
     TakeNextKeeps, IndexOneKeeps, LoopEndsKeeps, RebuiltKeeps, ScoreKeeps, FoundKeeps,
     MarkDirtyKeeps DEF KnowledgeNext
<1>2. ASSUME UNCHANGED knowledgeVars, part' = part, part = "knowledge" => busy' = busy
      PROVE  SearchInv'
  <2>1. UNCHANGED <<docs, index, words, dirty, find, suspect>>
    BY <1>2 DEF knowledgeVars
  <2>2. \A t : (In(t)' <=> In(t)) /\ (Writes(t)' <=> Writes(t))
    BY <1>2, <2>1 DEF In, Writes
  <2>3. \A id : Unmarked(id)' <=> Unmarked(id)
    BY <2>1, <2>2 DEF Unmarked
  <2>4. IndexOK'
    <3> SUFFICES ASSUME part = "knowledge", ~suspect, ~dirty PROVE
            /\ IdsOf(index) \subseteq IdsOf(docs)
            /\ \A x \in Slots(docs) : Unmarked(x.id)' \/ (x \in Slots(index) /\ x.text \in words)
      BY <1>2, <2>1 DEF IndexOK
    <3> QED BY <2>3 DEF IndexOK, SearchInv
  <2>5. ASSUME NEW t \in Threads PROVE IF In(t)' THEN SearchOK(t)' ELSE find'[t] = NoFind
    <3>1. CASE In(t)
      <4>1. SearchOK(t)
        BY <3>1 DEF SearchInv
      <4>2. \A x \in find'[t].before : ~Unmarked(x.id)'
        BY <2>1, <2>3, <4>1 DEF SearchOK
      <4>3. busy' = busy
        BY <1>2, <3>1 DEF In
      <4>4. SearchOK(t)'
        BY <2>1, <4>1, <4>2, <4>3 DEF SearchOK
      <4> QED BY <2>2, <3>1, <4>4
    <3>2. CASE ~In(t)
      BY <2>1, <2>2, <3>2 DEF SearchInv
    <3> QED BY <3>1, <3>2
  <2>6. KnowledgeTyped'
    BY <2>1 DEF SearchInv, KnowledgeTyped
  <2>7. \A x, y \in Slots(docs') : x.id = y.id => x = y
    BY <2>1 DEF SearchInv
  <2> QED BY <2>4, <2>5, <2>6, <2>7 DEF SearchInv
<1>3. CASE UNCHANGED vars
  <2>1. UNCHANGED knowledgeVars /\ UNCHANGED sharedVars
    BY <1>3 DEF vars
  <2> QED BY <1>2, <2>1 DEF sharedVars
<1>4. ASSUME Next, ~KnowledgeNext PROVE SearchInv'
  <2>1. /\ UNCHANGED knowledgeVars
        /\ \E p \in {"cache", "servers", "subagents", "stream"} : StepOf(p)
    BY <1>4, OnlyOnePart DEF Next
  <2>2. part' = part /\ (part = "knowledge" => UNCHANGED sharedVars)
    BY <2>1 DEF StepOf
  <2> QED BY <1>2, <2>1, <2>2 DEF sharedVars
<1> QED BY <1>1, <1>3, <1>4

\* For any number of threads and documents, a search finds only documents that were there
\* while it ran, finds each that was there before and was not touched meanwhile, and raises
\* only when it was disturbed, or the index is one whose rebuild overlapped with another
\* operation.
THEOREM AlwaysSearchSound == Spec => []SearchSound
<1>1. SearchInv => SearchSound
  <2> SUFFICES ASSUME SearchInv PROVE SearchSound
    OBVIOUS
  <2>1. FoundReal
    <3> SUFFICES ASSUME NEW t \in Threads PROVE find[t].found \subseteq find[t].during
      BY DEF FoundReal
    <3>1. NoFind.found = {}
      BY DEF NoFind
    <3> QED BY <3>1 DEF SearchInv, SearchOK, ViewOK
  <2>2. SearchComplete
    <3> SUFFICES ASSUME NEW t \in Threads, Final(t), ~suspect
                 PROVE  LET f == find[t]
                            exact == {x \in f.before : x.text = f.query}
                        IN /\ exact \subseteq f.found
                           /\ (\A x \in f.found : x.text # f.query) =>
                                 {x \in f.before : <<f.query, x.text>> \in Near} \subseteq f.found
      BY DEF SearchComplete
    <3> DEFINE f == find[t]
    <3>1. In(t) /\ f.pc \in {"exact", "score"} /\ AtEnd(t) /\ (f.pc = "exact" => f.found # {})
      BY DEF Final, Within, In
    <3>2. SearchOK(t) /\ docs \in Places /\ index \in Places
      BY <3>1 DEF SearchInv, KnowledgeTyped
    <3>3. \A j \in 1..Len(Iterated(t)) : j > f.at => Iterated(t)[j] = Hole
      BY <3>1, NothingFollows
    <3>4. \A x \in f.before : x # Hole
      BY <3>1, <3>2, SlotsAre DEF SearchOK, ViewOK
    <3>5. CASE f.pc = "exact"
      <4>1. \A x \in f.before : x.text = f.query => x \in f.found
        BY <3>2, <3>3, <3>4, <3>5 DEF SearchOK, ExactOK, Iterated
      <4>2. \E x \in f.found : x.text = f.query
        BY <3>1, <3>2, <3>5 DEF SearchOK, ExactOK
      <4> QED BY <4>1, <4>2
    <3>6. CASE f.pc = "score"
      <4>1. \A x \in f.before : x.text # f.query
        BY <3>2, <3>6 DEF SearchOK, ExactOK
      <4>2. ScoreOK(f, docs, index, words)
        BY <3>2, <3>6 DEF SearchOK
      <4>3. ASSUME NEW x \in f.before, <<f.query, x.text>> \in Near PROVE x \in f.found
        <5>1. PICK j \in 1..Len(index) :
                 index[j] = x /\ (j > f.at \/ (<<f.query, x.text>> \in Near => x \in f.found))
          BY <4>2 DEF ScoreOK
        <5> QED BY <3>3, <3>4, <3>6, <4>3, <5>1 DEF Iterated
      <4> QED BY <4>1, <4>3
    <3> QED BY <3>1, <3>5, <3>6
  <2>3. SearchAnswers
    <3> SUFFICES ASSUME NEW t \in Threads, Raises(t), ~suspect, ~find[t].disturbed PROVE FALSE
      BY DEF SearchAnswers
    <3> DEFINE f == find[t]
    <3>1. In(t) /\ f.pc \in {"exact", "build", "score"}
      BY DEF Raises, Within, In
    <3>2. SearchOK(t) /\ docs \in Places /\ index \in Places
      BY <3>1 DEF SearchInv, KnowledgeTyped
    <3>3. SameSize(t)
      BY <3>1, <3>2 DEF SearchOK, ExactOK, BuildOK, ScoreOK, SameSize, Iterated
    <3>4. f.pc = "score" /\ MayGoOn(t) /\ ~Has(docs, index[Following(t)].id)
      BY <3>3 DEF Raises, Within
    <3>5. index[Following(t)] \in Slots(index)
      BY <3>4, FollowingIs DEF Iterated
    <3>6. index[Following(t)].id \in IdsOf(docs)
      BY <3>2, <3>4, <3>5 DEF SearchOK, ScoreOK, IdsOf
    <3> QED BY <3>4, <3>6 DEF IdsOf, Has
  <2> QED BY <2>1, <2>2, <2>3 DEF SearchSound
<1>2. Spec => []SearchInv
  BY SearchInitially, SearchStep, PTL DEF Spec
<1> QED BY <1>1, <1>2, PTL

-----------------------------------------------------------------------------
(* The cache: what is listed, sorted, stored and deleted.                  *)

\* A strict order of all of K.
Orders(R, K) ==
    /\ \A i, j \in K : i # j => <<i, j>> \in R \/ <<j, i>> \in R
    /\ \A i \in K : <<i, i>> \notin R
    /\ \A i, j, k \in K : <<i, j>> \in R /\ <<j, k>> \in R => <<i, k>> \in R

\* Each number up to the size of a finite ordered set is the place of one element.
LEMMA PlacesAre ==
    ASSUME NEW K, IsFiniteSet(K), NEW R, Orders(R, K)
    PROVE  /\ Cardinality(K) \in Nat
           /\ \A k \in K : Rank(k, K, R) \in 1..Cardinality(K)
           /\ \A i, j \in K : <<i, j>> \in R => Rank(i, K, R) < Rank(j, K, R)
           /\ \A n \in 1..Cardinality(K) : \E k \in K : Rank(k, K, R) = n
<1> DEFINE Before(k) == {j \in K : <<j, k>> \in R}
           N == Cardinality(K)
           place == [k \in K |-> Rank(k, K, R)]
<1>1. N \in Nat
  BY FS_CardinalityType
<1>2. ASSUME NEW A, NEW B, A \subseteq B, B \subseteq K, NEW x \in B, x \notin A
      PROVE  /\ IsFiniteSet(A) /\ Cardinality(A) \in Nat /\ Cardinality(B) \in Nat
             /\ Cardinality(A) < Cardinality(B)
  <2>1. IsFiniteSet(B) /\ IsFiniteSet(A)
    BY <1>2, FS_Subset
  <2>2. Cardinality(A) \in Nat /\ Cardinality(B) \in Nat
    BY <2>1, FS_CardinalityType
  <2>3. Cardinality(A) <= Cardinality(B) /\ (Cardinality(A) = Cardinality(B) => A = B)
    BY <1>2, <2>1, FS_Subset
  <2> QED BY <1>2, <2>1, <2>2, <2>3
<1>3. ASSUME NEW k \in K PROVE Rank(k, K, R) \in 1..N
  <2>1. k \notin Before(k) /\ Before(k) \subseteq K
    BY DEF Orders
  <2>2. Cardinality(Before(k)) \in Nat /\ Cardinality(Before(k)) < N
    BY <1>2, <2>1
  <2> QED BY <1>1, <2>2 DEF Rank
<1>4. ASSUME NEW i \in K, NEW j \in K, <<i, j>> \in R
      PROVE  Rank(i, K, R) < Rank(j, K, R)
  <2>1. Before(i) \subseteq Before(j) /\ Before(j) \subseteq K /\ i \in Before(j) /\ i \notin Before(i)
    BY <1>4 DEF Orders
  <2>2. /\ Cardinality(Before(i)) < Cardinality(Before(j))
        /\ Cardinality(Before(i)) \in Nat /\ Cardinality(Before(j)) \in Nat
    BY <1>2, <2>1
  <2> QED BY <2>2 DEF Rank
<1>6. place \in Injection(K, 1..N)
  <2>1. place \in [K -> 1..N]
    BY <1>3
  <2>2. ASSUME NEW i \in K, NEW j \in K, place[i] = place[j], i # j
        PROVE  FALSE
    <3>1. <<i, j>> \in R \/ <<j, i>> \in R
      BY <2>2 DEF Orders
    <3>2. place[i] < place[j] \/ place[j] < place[i]
      BY <1>4, <3>1
    <3>3. place[i] \in Int
      BY <1>1, <1>3
    <3> QED BY <2>2, <3>2, <3>3
  <2> QED BY <2>1, <2>2 DEF Injection, IsInjective
<1>7. place \in Surjection(K, 1..N)
  <2>1. IsFiniteSet(1..N) /\ Cardinality(1..N) = N
    <3>1. /\ IsFiniteSet(1..N)
          /\ Cardinality(1..N) = IF 1 > N THEN 0 ELSE N - 1 + 1
      BY <1>1, FS_Interval
    <3> QED BY <1>1, <3>1
  <2> HIDE DEF N
  <2> QED BY <1>6, <2>1, FS_Injection DEF N
<1>8. ASSUME NEW n \in 1..N PROVE \E k \in K : Rank(k, K, R) = n
  BY <1>7 DEF Surjection
<1> QED BY <1>1, <1>3, <1>4, <1>8

\* Ranked(s, K, R) has what is at the places K, each once, in the order R.
LEMMA RankedIs ==
    ASSUME NEW S, NEW s \in Seq(S), NEW K \in SUBSET (1..Len(s)), NEW R, Orders(R, K)
    PROVE  /\ Ranked(s, K, R) \in Seq(S) /\ Len(Ranked(s, K, R)) = Cardinality(K)
           /\ Cardinality(K) \in Nat /\ Cardinality(K) <= Len(s)
           /\ K = 1..Len(s) => Cardinality(K) = Len(s)
           /\ \E at \in [1..Cardinality(K) -> K] :
                /\ \A n \in 1..Cardinality(K) : Ranked(s, K, R)[n] = s[at[n]]
                /\ \A n, m \in 1..Cardinality(K) : n < m => <<at[n], at[m]>> \in R
                /\ \A k \in K : \E n \in 1..Cardinality(K) : at[n] = k
<1> DEFINE N == Cardinality(K)
           P(k) == Rank(k, K, R)
           at == [n \in 1..N |-> CHOOSE k \in K : P(k) = n]
<1>1. Len(s) \in Nat /\ \A i \in 1..Len(s) : s[i] \in S
  OBVIOUS
<1>2. /\ IsFiniteSet(K) /\ N \in Nat /\ N <= Len(s)
      /\ K = 1..Len(s) => N = Len(s)
  <2>1. IsFiniteSet(1..Len(s)) /\ Cardinality(1..Len(s)) = Len(s)
    <3>1. /\ IsFiniteSet(1..Len(s))
          /\ Cardinality(1..Len(s)) = IF 1 > Len(s) THEN 0 ELSE Len(s) - 1 + 1
      BY <1>1, FS_Interval
    <3> QED BY <1>1, <3>1
  <2>2. IsFiniteSet(K) /\ N <= Len(s)
    BY <2>1, FS_Subset
  <2> QED BY <2>1, <2>2, FS_CardinalityType
<1>3. /\ \A k \in K : P(k) \in 1..N
      /\ \A i, j \in K : <<i, j>> \in R => P(i) < P(j)
      /\ \A n \in 1..N : \E k \in K : P(k) = n
  BY <1>2, PlacesAre
<1>5. Ranked(s, K, R) = [n \in 1..N |-> s[at[n]]]
  BY DEF Ranked
<1> HIDE DEF P
<1>4. \A n \in 1..N : at[n] \in K /\ P(at[n]) = n
  BY <1>3
<1> HIDE DEF at
<1>6. at \in [1..N -> K]
  BY <1>4 DEF at
<1>7. ASSUME NEW n \in 1..N, NEW m \in 1..N, n < m PROVE <<at[n], at[m]>> \in R
  <2>1. at[n] \in K /\ at[m] \in K /\ P(at[n]) = n /\ P(at[m]) = m /\ n \in Int /\ m \in Int
    BY <1>2, <1>4
  <2>2. at[m] # at[n]
    BY <1>7, <2>1
  <2>3. <<at[m], at[n]>> \in R => P(at[m]) < P(at[n])
    BY <1>3, <2>1
  <2>4. ~(m < n)
    BY <1>7, <2>1
  <2> QED BY <2>1, <2>2, <2>3, <2>4 DEF Orders
<1>8. ASSUME NEW k \in K PROVE \E n \in 1..N : at[n] = k
  <2>1. P(k) \in 1..N /\ P(k) \in Int
    BY <1>2, <1>3
  <2>2. PICK x : x = at[P(k)]
    OBVIOUS
  <2>3. x \in K /\ P(x) = P(k)
    BY <1>4, <2>1, <2>2
  <2>4. <<x, k>> \notin R /\ <<k, x>> \notin R
    BY <1>3, <2>1, <2>3
  <2> QED BY <2>1, <2>2, <2>3, <2>4 DEF Orders
<1>9. Ranked(s, K, R) \in Seq(S) /\ Len(Ranked(s, K, R)) = N
  <2>1. \A n \in 1..N : s[at[n]] \in S
    BY <1>1, <1>6
  <2>2. Ranked(s, K, R) \in [1..N -> S]
    BY <1>5, <2>1
  <2>3. Ranked(s, K, R) \in Seq(S)
    BY <1>2, <2>2, SeqDef
  <2> QED BY <1>2, <2>2, <2>3, LenProperties
<1> QED BY <1>2, <1>5, <1>6, <1>7, <1>8, <1>9

KeysOK(s) == \A i, j \in 1..Len(s) : s[i].key = s[j].key => i = j

\* Listing picks entries, each once.
LEMMA PickedIs ==
    ASSUME NEW s \in Seq(Entry), KeysOK(s), NEW K \in SUBSET (1..Len(s))
    PROVE  /\ Picked(s, K) \in Seq(Entry) /\ KeysOK(Picked(s, K))
           /\ \A n \in 1..Len(Picked(s, K)) : \E k \in K : Picked(s, K)[n] = s[k]
<1> DEFINE R == {p \in K \X K : p[1] < p[2]}
<1>1. Len(s) \in Nat
  OBVIOUS
<1>2. \A i, j \in K : <<i, j>> \in R <=> i < j
  OBVIOUS
<1>3. Orders(R, K)
  <2>1. \A i \in K : i \in Int
    BY <1>1
  <2> HIDE DEF R
  <2> QED BY <1>2, <2>1 DEF Orders
<1>4. Picked(s, K) = Ranked(s, K, R)
  BY DEF Picked
<1> HIDE DEF R
<1>5. /\ Picked(s, K) \in Seq(Entry) /\ Len(Picked(s, K)) = Cardinality(K) /\ Cardinality(K) \in Nat
  BY <1>3, <1>4, RankedIs
<1>6. PICK at \in [1..Cardinality(K) -> K] :
         /\ \A n \in 1..Cardinality(K) : Picked(s, K)[n] = s[at[n]]
         /\ \A n, m \in 1..Cardinality(K) : n < m => <<at[n], at[m]>> \in R
  BY <1>3, <1>4, RankedIs
<1>7. ASSUME NEW n \in 1..Cardinality(K), NEW m \in 1..Cardinality(K),
             Picked(s, K)[n].key = Picked(s, K)[m].key
      PROVE  n = m
  <2>0. at[n] \in K /\ at[m] \in K
    BY <1>6
  <2>1. s[at[n]].key = s[at[m]].key
    BY <1>6, <1>7
  <2>2. at[n] \in 1..Len(s) /\ at[m] \in 1..Len(s)
    BY <2>0
  <2>6. \A i, j \in 1..Len(s) : s[i].key = s[j].key => i = j
    BY DEF KeysOK
  <2>3. at[n] = at[m] /\ at[n] \in Int
    BY <1>1, <2>2, <2>1, <2>6
  <2>4. n \in Int /\ m \in Int
    BY <1>5
  <2>5. <<at[n], at[m]>> \notin R /\ <<at[m], at[n]>> \notin R
    BY <1>2, <2>0, <2>3
  <2>7. ~(n < m) /\ ~(m < n)
    BY <1>6, <2>5
  <2> QED BY <2>4, <2>7
<1>8. KeysOK(Picked(s, K))
  BY <1>5, <1>7 DEF KeysOK
<1> QED BY <1>5, <1>6, <1>8

\* What is evicted is the oldest, and something when there is an excess.
LEMMA OldestIs ==
    ASSUME NEW s \in Seq(Entry), KeysOK(s), NEW x \in Int
    PROVE  /\ Oldest(s, x) \in Seq(Entry) /\ KeysOK(Oldest(s, x))
           /\ x > 0 /\ s # << >> => Oldest(s, x) # << >>
           /\ \A n \in 1..Len(Oldest(s, x)) : \E k \in 1..Len(s) : Oldest(s, x)[n] = s[k]
           /\ \A n, m \in 1..Len(Oldest(s, x)) : n < m => Oldest(s, x)[n].made <= Oldest(s, x)[m].made
           /\ \A n \in 1..Len(Oldest(s, x)), k \in 1..Len(s) :
                \/ Oldest(s, x)[n].made <= s[k].made
                \/ \E m \in 1..Len(Oldest(s, x)) : Oldest(s, x)[m] = s[k]
<1> DEFINE all == DOMAIN s
           R == {p \in all \X all : \/ s[p[1]].made < s[p[2]].made
                                    \/ s[p[1]].made = s[p[2]].made /\ p[1] < p[2]}
           n0 == IF x < 0 THEN Len(s) + x ELSE x
           o == Oldest(s, x)
           r == Ranked(s, all, R)
<1>1. Len(s) \in Nat /\ all = 1..Len(s) /\ \A i \in 1..Len(s) : s[i] \in Entry /\ s[i].made \in Int
  <2>1. \A e \in Entry : e.made \in Int
    BY DEF Entry
  <2>2. Len(s) \in Nat /\ all = 1..Len(s) /\ \A i \in 1..Len(s) : s[i] \in Entry
    OBVIOUS
  <2> QED BY <2>1, <2>2
<1>2. \A i, j \in all :
         <<i, j>> \in R <=> (s[i].made < s[j].made \/ (s[i].made = s[j].made /\ i < j))
  OBVIOUS
<1>3. o = [i \in (1..n0) \cap all |-> r[i]]
  BY DEF Oldest
<1> HIDE DEF R, r, o
<1>4. Orders(R, all)
  <2>1. ASSUME NEW i \in all, NEW j \in all, NEW k \in all
        PROVE  /\ i # j => <<i, j>> \in R \/ <<j, i>> \in R
               /\ <<i, i>> \notin R
               /\ <<i, j>> \in R /\ <<j, k>> \in R => <<i, k>> \in R
    <3>1. /\ i \in Int /\ j \in Int /\ k \in Int
          /\ s[i].made \in Int /\ s[j].made \in Int /\ s[k].made \in Int
      BY <1>1
    <3>2. DEFINE a == s[i].made  b == s[j].made  c == s[k].made
    <3>3. /\ <<i, j>> \in R <=> (a < b \/ (a = b /\ i < j))
          /\ <<j, i>> \in R <=> (b < a \/ (b = a /\ j < i))
          /\ <<i, i>> \in R <=> (a < a \/ (a = a /\ i < i))
          /\ <<j, k>> \in R <=> (b < c \/ (b = c /\ j < k))
          /\ <<i, k>> \in R <=> (a < c \/ (a = c /\ i < k))
      BY <1>2
    <3>4. a \in Int /\ b \in Int /\ c \in Int
      BY <3>1
    <3> HIDE DEF a, b, c
    <3> QED BY <3>1, <3>3, <3>4
  <2> QED BY <2>1 DEF Orders
<1>5. /\ r \in Seq(Entry) /\ Len(r) = Len(s)
      /\ \E at \in [1..Len(s) -> 1..Len(s)] :
           /\ \A n \in 1..Len(s) : r[n] = s[at[n]]
           /\ \A n, m \in 1..Len(s) : n < m => <<at[n], at[m]>> \in R
           /\ \A k \in 1..Len(s) : \E n \in 1..Len(s) : at[n] = k
  <2>1. all \in SUBSET (1..Len(s))
    BY <1>1
  <2> HIDE DEF all
  <2>2. r \in Seq(Entry) /\ Cardinality(all) = Len(s) /\ Len(r) = Cardinality(all)
    BY <1>1, <1>4, <2>1, RankedIs DEF r
  <2>3. \E at \in [1..Cardinality(all) -> all] :
           /\ \A n \in 1..Cardinality(all) : r[n] = s[at[n]]
           /\ \A n, m \in 1..Cardinality(all) : n < m => <<at[n], at[m]>> \in R
           /\ \A k \in all : \E n \in 1..Cardinality(all) : at[n] = k
    BY <1>4, <2>1, RankedIs DEF r
  <2>4. PICK at \in [1..Cardinality(all) -> all] :
           /\ \A n \in 1..Cardinality(all) : r[n] = s[at[n]]
           /\ \A n, m \in 1..Cardinality(all) : n < m => <<at[n], at[m]>> \in R
           /\ \A k \in all : \E n \in 1..Cardinality(all) : at[n] = k
    BY <2>3
  <2>5. /\ at \in [1..Len(s) -> 1..Len(s)]
        /\ \A n \in 1..Len(s) : r[n] = s[at[n]]
        /\ \A n, m \in 1..Len(s) : n < m => <<at[n], at[m]>> \in R
        /\ \A k \in 1..Len(s) : \E n \in 1..Len(s) : at[n] = k
    BY <1>1, <2>2, <2>4
  <2> QED BY <2>2, <2>5
<1>6. PICK at \in [1..Len(s) -> 1..Len(s)] :
           /\ \A n \in 1..Len(s) : r[n] = s[at[n]]
           /\ \A n, m \in 1..Len(s) : n < m => <<at[n], at[m]>> \in R
           /\ \A k \in 1..Len(s) : \E n \in 1..Len(s) : at[n] = k
  BY <1>5
<1>7. PICK N \in 0..Len(s) : /\ (1..n0) \cap all = 1..N
                             /\ x > 0 /\ Len(s) > 0 => N > 0
  <2> DEFINE m == IF n0 < 0 THEN 0 ELSE IF n0 < Len(s) THEN n0 ELSE Len(s)
  <2>1. m \in 0..Len(s) /\ (1..n0) \cap (1..Len(s)) = 1..m /\ (x > 0 /\ Len(s) > 0 => m > 0)
    BY <1>1
  <2> QED BY <1>1, <2>1
<1>8. o \in Seq(Entry) /\ Len(o) = N /\ \A n \in 1..N : o[n] = s[at[n]]
  <2> HIDE DEF all, n0
  <2>0. N \in Nat /\ \A n \in 1..N : n \in 1..Len(s)
    BY <1>1
  <2>1. o = [n \in 1..N |-> r[n]]
    BY <1>3, <1>7
  <2>2. \A n \in 1..N : r[n] \in Entry /\ r[n] = s[at[n]]
    BY <1>1, <1>6, <2>0
  <2>3. o \in [1..N -> Entry]
    BY <2>1, <2>2
  <2>4. o \in Seq(Entry)
    BY <2>0, <2>3, SeqDef
  <2> QED BY <2>0, <2>1, <2>2, <2>3, <2>4, LenProperties
<1>9. ASSUME NEW n \in 1..N, NEW m \in 1..N, n < m
      PROVE  at[n] # at[m] /\ o[n].made <= o[m].made
  <2>1. n \in 1..Len(s) /\ m \in 1..Len(s)
    BY <1>1
  <2>2. <<at[n], at[m]>> \in R /\ at[n] \in 1..Len(s) /\ at[m] \in 1..Len(s)
    BY <1>6, <1>9, <2>1
  <2>3. \/ s[at[n]].made < s[at[m]].made
        \/ s[at[n]].made = s[at[m]].made /\ at[n] < at[m]
    BY <1>1, <1>2, <2>2
  <2>4. at[n] # at[m]
    BY <1>1, <2>2, <2>3
  <2>5. s[at[n]].made <= s[at[m]].made
    BY <1>1, <2>2, <2>3
  <2> QED BY <1>8, <2>4, <2>5
<1>10. KeysOK(o)
  <2>1. ASSUME NEW n \in 1..N, NEW m \in 1..N, o[n].key = o[m].key, n # m PROVE FALSE
    <3>1. n < m \/ m < n
      BY <1>1, <2>1
    <3>2. at[n] # at[m]
      BY <1>9, <3>1
    <3>0. n \in 1..Len(s) /\ m \in 1..Len(s)
      BY <1>1
    <3>3. at[n] \in 1..Len(s) /\ at[m] \in 1..Len(s)
      BY <1>6, <3>0
    <3>4. s[at[n]].key = s[at[m]].key
      BY <1>8, <2>1
    <3> QED BY <3>2, <3>3, <3>4 DEF KeysOK
  <2> QED BY <1>8, <2>1 DEF KeysOK
<1>11. ASSUME NEW n \in 1..N, NEW k \in 1..Len(s)
       PROVE  o[n].made <= s[k].made \/ \E m \in 1..N : o[m] = s[k]
  <2>1. PICK m \in 1..Len(s) : at[m] = k
    BY <1>6
  <2>2. CASE m \in 1..N
    BY <1>8, <2>1, <2>2
  <2>3. CASE m \notin 1..N
    <3>1. n < m /\ n \in 1..Len(s)
      BY <1>1, <2>3
    <3>2. <<at[n], at[m]>> \in R /\ at[n] \in 1..Len(s)
      BY <1>6, <2>1, <3>1
    <3>3. s[at[n]].made < s[k].made \/ (s[at[n]].made = s[k].made /\ at[n] < k)
      BY <1>1, <1>2, <2>1, <3>2
    <3>4. s[at[n]].made <= s[k].made
      BY <1>1, <3>2, <3>3
    <3> QED BY <1>8, <3>4
  <2> QED BY <2>2, <2>3
<1>12. x > 0 /\ s # << >> => o # << >>
  BY <1>1, <1>7, <1>8
<1>13. \A n \in 1..N : \E k \in 1..Len(s) : o[n] = s[k]
  <2>1. \A n \in 1..N : n \in 1..Len(s)
    BY <1>1
  <2> QED BY <1>6, <1>8, <2>1
<1> QED BY <1>8, <1>9, <1>10, <1>11, <1>12, <1>13 DEF o

\* To store an entry keeps the keys apart and adds at most one.
LEMMA StoredIs ==
    ASSUME NEW s \in Seq(Entry), KeysOK(s), NEW e \in Entry
    PROVE  /\ Stored(s, e) \in Seq(Entry) /\ KeysOK(Stored(s, e))
           /\ Len(Stored(s, e)) <= Len(s) + 1
           /\ \A i \in 1..Len(Stored(s, e)) :
                Stored(s, e)[i] = e \/ \E j \in 1..Len(s) : Stored(s, e)[i] = s[j]
<1>1. Len(s) \in Nat /\ DOMAIN s = 1..Len(s) /\ \A i \in 1..Len(s) : s[i] \in Entry
  OBVIOUS
<1>2. CASE e.key \in Keys(s)
  <2> DEFINE w == [i \in 1..Len(s) |-> IF s[i].key = e.key THEN e ELSE s[i]]
  <2>1. Stored(s, e) = w
    BY <1>1, <1>2 DEF Stored
  <2>2. w \in [1..Len(s) -> Entry]
    BY <1>1
  <2>3. w \in Seq(Entry) /\ Len(w) = Len(s)
    <3> HIDE DEF w
    <3>1. w \in Seq(Entry)
      BY <1>1, <2>2, SeqDef
    <3> QED BY <1>1, <2>2, <3>1, LenProperties
  <2>4. \A i \in 1..Len(s) : w[i].key = s[i].key /\ (w[i] = e \/ w[i] = s[i])
    OBVIOUS
  <2> HIDE DEF w
  <2>5. KeysOK(w)
    BY <2>3, <2>4 DEF KeysOK
  <2> QED BY <1>1, <2>1, <2>3, <2>4, <2>5
<1>3. CASE e.key \notin Keys(s)
  <2>1. Stored(s, e) = Append(s, e)
    BY <1>3 DEF Stored
  <2>2. /\ Append(s, e) \in Seq(Entry) /\ Len(Append(s, e)) = Len(s) + 1
        /\ \A i \in 1..Len(s) : Append(s, e)[i] = s[i]
        /\ Append(s, e)[Len(s) + 1] = e
    BY AppendProperties
  <2>3. \A i \in 1..Len(s) : s[i].key # e.key
    BY <1>1, <1>3 DEF Keys
  <2>4. \A i \in 1..Len(s) + 1 : i \in 1..Len(s) \/ i = Len(s) + 1
    BY <1>1
  <2>5. KeysOK(Append(s, e))
    BY <2>2, <2>3, <2>4 DEF KeysOK
  <2> QED BY <1>1, <2>1, <2>2, <2>4, <2>5
<1> QED BY <1>2, <1>3

\* To delete a key removes its entry only.
LEMMA WithoutKeyIs ==
    ASSUME NEW s \in Seq(Entry), KeysOK(s), NEW q \in Keys(s)
    PROVE  /\ WithoutKey(s, q) \in Seq(Entry) /\ KeysOK(WithoutKey(s, q))
           /\ Len(WithoutKey(s, q)) = Len(s) - 1
           /\ \A j \in 1..Len(WithoutKey(s, q)) : \E i \in 1..Len(s) :
                WithoutKey(s, q)[j] = s[i] /\ s[i].key # q
           /\ \A i \in 1..Len(s) : s[i].key # q =>
                \E j \in 1..Len(WithoutKey(s, q)) : WithoutKey(s, q)[j] = s[i]
<1>1. Len(s) \in Nat /\ DOMAIN s = 1..Len(s) /\ \A i \in 1..Len(s) : s[i] \in Entry
  OBVIOUS
<1> DEFINE p == CHOOSE i \in DOMAIN s : s[i].key = q
           w == RemoveAt(s, p)
<1>2. p \in 1..Len(s) /\ s[p].key = q
  BY <1>1 DEF Keys
<1>3. WithoutKey(s, q) = w
  BY DEF WithoutKey
<1> HIDE DEF p
<1>4. /\ w \in Seq(Entry) /\ Len(w) = Len(s) - 1
      /\ \A j \in 1..Len(s) - 1 : w[j] = s[IF j < p THEN j ELSE j + 1]
  BY <1>2, RemoveAtIs
<1> HIDE DEF w
<1> DEFINE f(j) == IF j < p THEN j ELSE j + 1
<1>5. \A j \in 1..Len(s) - 1 : w[j] = s[f(j)] /\ f(j) \in 1..Len(s) /\ f(j) # p
  BY <1>1, <1>2, <1>4
<1>6. \A j, k \in 1..Len(s) - 1 : f(j) = f(k) => j = k
  BY <1>1, <1>2
<1>7. \A i \in 1..Len(s) : i # p => \E j \in 1..Len(s) - 1 : f(j) = i
  <2> SUFFICES ASSUME NEW i \in 1..Len(s), i # p PROVE \E j \in 1..Len(s) - 1 : f(j) = i
    OBVIOUS
  <2>1. CASE i < p
    <3>1. i \in 1..Len(s) - 1 /\ f(i) = i
      BY <1>1, <1>2, <2>1
    <3> QED BY <3>1
  <2>2. CASE i > p
    <3>1. i - 1 \in 1..Len(s) - 1 /\ f(i - 1) = i
      BY <1>1, <1>2, <2>2
    <3> QED BY <3>1
  <2> QED BY <1>1, <1>2, <2>1, <2>2
<1> HIDE DEF f
<1>8. KeysOK(w)
  BY <1>4, <1>5, <1>6 DEF KeysOK
<1>9. \A j \in 1..Len(w) : \E i \in 1..Len(s) : w[j] = s[i] /\ s[i].key # q
  BY <1>2, <1>4, <1>5 DEF KeysOK
<1>10. \A i \in 1..Len(s) : s[i].key # q => \E j \in 1..Len(w) : w[j] = s[i]
  BY <1>2, <1>4, <1>5, <1>7
<1> QED BY <1>3, <1>4, <1>8, <1>9, <1>10

-----------------------------------------------------------------------------
(* The invariant of the cache, and what a step has to show to keep it.     *)

CacheTyped ==
    /\ level \in [Dicts -> Seq(Entry)] /\ users \subseteq Users /\ IsFiniteSet(users)
    /\ access \in 0..CleanupPeriod - 1
    /\ clock \in Int /\ back \in 0..MaxBack /\ clock + back \in 0..MaxTime
    /\ look \in [Threads -> Looks] /\ failed \in Nat

\* A thread is in the middle of an operation of the cache.
Caches(t) == part = "cache" /\ t \in busy

\* An entry was made when it was born, unless the clock was set back, and not in the future.
TimeOK(e, now, b) == e.made <= e.born /\ e.born <= now /\ (b = 0 => e.made = e.born)
AllTimeOK(s, now, b) == \A i \in 1..Len(s) : TimeOK(s[i], now, b)

TimesOK ==
    /\ \A d \in Dicts : AllTimeOK(level[d], clock + back, back)
    /\ \A t \in Threads : AllTimeOK(look[t].doomed, clock + back, back)

\* What a thread does at which place.
PlaceOK(f) ==
    /\ KeysOK(f.doomed)
    /\ f.put => f.scans = << >> /\ f.todo = << >>
    /\ f.pc = "look" => f.at = "none"
    /\ f.pc \in {"list", "purge", "unlist"} => f.at \in Timed /\ ~f.put
    /\ f.pc = "unlist" => f.at \in Users
    /\ f.pc = "pick" => f.at = "scenario" /\ f.key = "none" /\ ~f.put
    /\ f.pc \in {"find", "store"} => f.at \in Users /\ f.scans = << >> /\ ~f.put
    /\ f.pc = "store" => f.key \in Queries
    /\ f.pc \in {"evict", "sort"} => f.at \in Timed /\ f.put
    /\ f.pc = "sort" => f.doomed # << >>
    /\ f.pc = "check" => Len(f.doomed) = 1 /\ f.at \in Dicts /\ ~f.put
    /\ f.pc = "drop" /\ f.doomed # << >> => f.at \in Dicts /\ (f.put => f.at \in Timed)

\* What a thread has in hand of the dictionary s is true of it.
InHand(f, s) ==
    /\ f.pc \in {"list", "pick"} => f.size = Len(s)
    /\ f.pc = "sort" => f.doomed = s
    /\ f.pc \in {"check", "drop", "purge"} =>
         \A i \in 1..Len(f.doomed) : \E j \in 1..Len(s) : s[j] = f.doomed[i]
    /\ f.pc = "unlist" => s = << >>

\* What it evicts is older than what it evicts next and than what stays.
OldFirst(v, s) ==
    /\ \A i, j \in 1..Len(v) : i < j => v[i].made <= v[j].made
    /\ \A i \in 1..Len(v), k \in 1..Len(s) :
         v[i].made <= s[k].made \/ \E j \in 1..Len(v) : v[j] = s[k]

\* What it deletes otherwise is expired, unless the clock was set back.
AllExpired(v, c) == \A i \in 1..Len(v) : v[i].ttl # Never /\ c > v[i].made + v[i].ttl
Purges(f) == f.pc = "purge" \/ (f.pc = "drop" /\ ~f.put /\ (f.at # "scenario" \/ f.key # "none"))

\* That is so as long as nobody else has changed the dictionary.
LookOK(f, L, U, c, b) ==
    /\ PlaceOK(f)
    /\ ~f.raced /\ f.at # "none" =>
          /\ f.pc \in {"list", "purge", "unlist", "find", "store"} /\ f.at \in Users => f.at \in U
          /\ InHand(f, L[f.at])
          /\ f.pc = "drop" /\ f.put => OldFirst(f.doomed, L[f.at])
          /\ b = 0 /\ Purges(f) => AllExpired(f.doomed, c)

\* The users a thread has listed are there, each once.
Scanning(f, U) ==
    /\ \A i \in 1..Len(f.scans) : f.scans[i] \in Users => f.scans[i] \in U /\ f.scans[i] # f.at
    /\ \A i, j \in 1..Len(f.scans) : f.scans[i] = f.scans[j] => i = j
    /\ \A i, j \in 1..Len(f.scans) : f.scans[i] = "users" => f.scans[j] \notin Users

\* In one event loop a thread is alone.
LoopOK ==
    part = "cache" /\ adapter = "fastapi" =>
       failed = 0 /\ \A t \in busy : busy = {t} /\ ~look[t].raced /\ Scanning(look[t], users)

\* The threads whose entry d may have above its limit.
Stores(f, d) == f.put /\ f.at = d /\ (f.pc \in {"evict", "sort"} \/ f.doomed # << >>)
Storing(d) == {t \in busy : Stores(look[t], d)}
CountOK ==
    IF part = "cache" THEN
       /\ busy \subseteq Threads /\ IsFiniteSet(busy)
       /\ MaxEntries > 0 => \A d \in Timed :
             Len(level[d]) <= MaxEntries + failed + Cardinality(Storing(d))
    ELSE level = [d \in Dicts |-> << >>] /\ failed = 0

CacheInv ==
    /\ CacheTyped
    /\ \A d \in Dicts : KeysOK(level[d])
    /\ TimesOK /\ LoopOK /\ CountOK
    /\ \A t \in Threads : IF Caches(t) THEN LookOK(look[t], level, users, clock, back)
                          ELSE look[t] = NoLook

One(b) == IF b THEN 1 ELSE 0

\* A finite set has one element more than without t when t is in it.
LEMMA OneMore ==
    ASSUME NEW A, IsFiniteSet(A), NEW t
    PROVE  /\ Cardinality(A \ {t}) \in Nat
           /\ Cardinality(A) = Cardinality(A \ {t}) + One(t \in A)
<1>1. IsFiniteSet(A \ {t}) /\ Cardinality(A) \in Nat /\ Cardinality(A \ {t}) \in Nat
  BY FS_RemoveElement, FS_CardinalityType
<1>2. Cardinality(A \ {t}) = IF t \in A THEN Cardinality(A) - 1 ELSE Cardinality(A)
  BY FS_RemoveElement
<1> QED BY <1>1, <1>2 DEF One

\* The dictionaries have names of their own.
LEMMA NamesApart ==
    /\ "none" \notin Dicts /\ Timed \subseteq Dicts /\ Users \subseteq Timed
    /\ "level_1" \in Timed /\ "scenario" \in Timed /\ "level_3" \in Dicts /\ "users" \notin Dicts
    /\ "level_1" \notin Users /\ "scenario" \notin Users /\ "level_3" \notin Users
    /\ NoLook \in Looks /\ [NoLook EXCEPT !.pc = "drop"] \in Looks
<1>1. /\ "none" \notin Dicts /\ Timed \subseteq Dicts /\ Users \subseteq Timed
      /\ "level_1" \in Timed /\ "scenario" \in Timed /\ "level_3" \in Dicts /\ "users" \notin Dicts
      /\ "level_1" \notin Users /\ "scenario" \notin Users /\ "level_3" \notin Users
  BY CacheAssumption DEF Dicts, Timed
<1>2. << >> \in Seq(Dicts) /\ << >> \in Seq(Timed \cup {"users"}) /\ << >> \in Seq(Entry)
  OBVIOUS
<1>3. NoLook \in Looks
  BY <1>2 DEF NoLook, Looks
<1>4. [NoLook EXCEPT !.pc = "drop"] \in Looks
  BY <1>2 DEF NoLook, Looks
<1> QED BY <1>1, <1>3, <1>4

\* The arithmetic of the limit.
LEMMA Room ==
    ASSUME NEW n \in Nat, NEW m \in Nat, NEW k \in Nat, NEW a \in Int, NEW b \in Int, NEW x \in Nat,
           NEW f \in Nat, NEW g \in Nat, m <= x + f + (k + a), n + a <= m + b + (g - f)
    PROVE  n <= x + g + (k + b)
OBVIOUS

\* A step of thread t that goes on with job, changes the dictionaries in D and tells the
\* others so (or that the dictionary they evict from is gone).
Changes(t, job, D) ==
    /\ \A d \in Dicts \ D : level'[d] = level[d]
    /\ \A d \in D : KeysOK(level'[d]) /\ AllTimeOK(level'[d], clock + back, back)
    /\ look'[t] = job
    /\ \A u \in Threads \ {t} :
         \/ look'[u] = look[u] /\ look[u].at \notin D
         \/ look'[u] = [look[u] EXCEPT !.raced = TRUE] /\ look[u].at \in D
         \/ /\ look'[u] = [NoLook EXCEPT !.pc = "drop"] /\ look[u].at \in D
            /\ level'[look[u].at] = << >>

\* Such a step keeps the invariant when thread t is where it says it is.
LEMMA StepKeeps ==
    ASSUME CacheInv, NEW t \in Threads, NEW job \in Looks, NEW D \in SUBSET Dicts,
           Changes(t, job, D),
           part = "cache", part' = part, adapter' = adapter,
           busy' = busy \cup {t} \/ busy' = busy \ {t},
           adapter = "fastapi" => busy \subseteq {t},
           clock' = clock, back' = back, CacheTyped',
           failed <= failed', users \ D \subseteq users',
           IF t \in busy' THEN LookOK(job, level', users', clock, back) ELSE job = NoLook,
           AllTimeOK(job.doomed, clock + back, back),
           MaxEntries > 0 => \A d \in Timed :
              \/ Len(level'[d]) <= MaxEntries
              \/ Len(level'[d]) + One(Stores(look[t], d))
                    <= Len(level[d]) + One(Stores(job, d)) + (failed' - failed),
           adapter = "fastapi" =>
              failed' = failed /\ (t \in busy' => ~job.raced /\ Scanning(job, users'))
    PROVE  CacheInv'
<1>1. /\ look \in [Threads -> Looks] /\ look' \in [Threads -> Looks]
      /\ level \in [Dicts -> Seq(Entry)] /\ level' \in [Dicts -> Seq(Entry)]
      /\ failed \in Nat /\ failed' \in Nat
      /\ busy \subseteq Threads /\ IsFiniteSet(busy)
  BY DEF CacheInv, CacheTyped, CountOK
<1>2. \A d \in Dicts : KeysOK(level'[d])
  BY DEF CacheInv, Changes
<1>3. TimesOK'
  <2>1. \A d \in Dicts : AllTimeOK(level'[d], clock + back, back)
    BY DEF CacheInv, TimesOK, Changes
  <2>2. ASSUME NEW u \in Threads PROVE AllTimeOK(look'[u].doomed, clock + back, back)
    <3>1. CASE u = t
      BY <3>1 DEF Changes
    <3>2. CASE u # t
      <4>1. look[u] \in Looks
        BY <1>1
      <4>2. look'[u].doomed = look[u].doomed \/ look'[u].doomed = << >>
        <5>1. /\ [look[u] EXCEPT !.raced = TRUE].doomed = look[u].doomed
              /\ [NoLook EXCEPT !.pc = "drop"].doomed = << >>
          BY <4>1 DEF NoLook, Looks
        <5> QED BY <3>2, <5>1 DEF Changes
      <4>3. AllTimeOK(<< >>, clock + back, back)
        BY DEF AllTimeOK
      <4> QED BY <4>2, <4>3 DEF CacheInv, TimesOK
    <3> QED BY <3>1, <3>2
  <2> QED BY <2>1, <2>2 DEF TimesOK
<1>4. LoopOK'
  <2>1. LoopOK
    BY DEF CacheInv
  <2> SUFFICES ASSUME adapter = "fastapi"
               PROVE  /\ failed' = 0
                      /\ \A u \in busy' : /\ busy' = {u} /\ ~look'[u].raced
                                          /\ Scanning(look'[u], users')
    BY DEF LoopOK
  <2>2. failed' = 0
    BY <2>1 DEF LoopOK
  <2>3. \A u \in busy' : u = t
    OBVIOUS
  <2> QED BY <2>2, <2>3 DEF Changes
<1>5. ASSUME NEW u \in Threads
      PROVE  IF Caches(u)' THEN LookOK(look'[u], level', users', clock', back') ELSE look'[u] = NoLook
  <2>1. CASE u = t
    BY <2>1 DEF Changes, Caches
  <2>2. CASE u # t
    <3>1. /\ Caches(u)' <=> Caches(u)
          /\ IF Caches(u) THEN LookOK(look[u], level, users, clock, back) ELSE look[u] = NoLook
      BY <2>2 DEF Caches, CacheInv
    <3>2. ~Caches(u) => look[u].at \notin D
      BY <3>1, NamesApart DEF NoLook
    <3>3. CASE look'[u] = look[u] /\ look[u].at \notin D
      <4>1. CASE ~Caches(u)
        BY <3>1, <3>3, <4>1
      <4>2. CASE Caches(u)
        <5>1. look[u] \in Looks /\ LookOK(look[u], level, users, clock, back)
          BY <1>1, <3>1, <4>2
        <5>2. look[u].at # "none" => look[u].at \in Dicts
          BY <5>1 DEF Looks
        <5>3. look[u].at # "none" => level'[look[u].at] = level[look[u].at]
          BY <3>3, <5>2 DEF Changes
        <5>4. look[u].at \in users => look[u].at \in users'
          BY <3>3
        <5>5. LookOK(look[u], level', users', clock, back)
          BY <5>1, <5>3, <5>4 DEF LookOK
        <5> QED BY <3>1, <3>3, <4>2, <5>5
      <4> QED BY <4>1, <4>2
    <3>4. CASE look'[u] = [look[u] EXCEPT !.raced = TRUE] /\ look[u].at \in D
      <4>1. look[u] \in Looks /\ Caches(u) /\ PlaceOK(look[u])
        BY <1>1, <3>1, <3>2, <3>4 DEF LookOK
      <4>2. look'[u].raced /\ PlaceOK(look'[u])
        BY <3>4, <4>1 DEF Looks, PlaceOK
      <4> QED BY <3>1, <4>1, <4>2 DEF LookOK
    <3>5. CASE look'[u] = [NoLook EXCEPT !.pc = "drop"] /\ look[u].at \in D
      <4>1. Caches(u)
        BY <3>2, <3>5
      <4>2. LookOK(look'[u], level', users', clock, back)
        BY <3>5 DEF LookOK, PlaceOK, NoLook, KeysOK
      <4> QED BY <3>1, <4>1, <4>2
    <3> QED BY <2>2, <3>3, <3>4, <3>5 DEF Changes
  <2> QED BY <2>1, <2>2
<1>6. CountOK'
  <2>1. busy' \subseteq Threads /\ IsFiniteSet(busy')
    <3>1. IsFiniteSet(busy \cup {t}) /\ IsFiniteSet(busy \ {t})
      BY <1>1, FS_AddElement, FS_RemoveElement
    <3> QED BY <1>1, <3>1
  <2>2. ASSUME MaxEntries > 0, NEW d \in Timed
        PROVE  Len(level'[d]) <= MaxEntries + failed' + Cardinality(Storing(d)')
    <3>1. Storing(d) \subseteq busy /\ Storing(d)' \subseteq busy'
      BY DEF Storing
    <3>2. IsFiniteSet(Storing(d)) /\ IsFiniteSet(Storing(d)')
      BY <1>1, <2>1, <3>1, FS_Subset
    <3>3. Cardinality(Storing(d)') \in Nat /\ Cardinality(Storing(d)) \in Nat
      BY <3>2, FS_CardinalityType
    <3>4. Len(level'[d]) \in Nat /\ Len(level[d]) \in Nat /\ MaxEntries \in Nat
      BY <1>1, NamesApart, CacheAssumption
    <3>5. CASE Len(level'[d]) <= MaxEntries
      BY <1>1, <3>3, <3>4, <3>5
    <3>6. CASE ~(Len(level'[d]) <= MaxEntries)
      <4>1. Len(level[d]) <= MaxEntries + failed + Cardinality(Storing(d))
        BY <2>2 DEF CacheInv, CountOK
      <4>2. level'[d] # << >>
        BY <3>4, <3>6
      <4>3. ASSUME NEW u \in Threads \ {t}
            PROVE  u \in busy' /\ Stores(look'[u], d) <=> u \in busy /\ Stores(look[u], d)
        <5>1. look[u] \in Looks
          BY <1>1
        <5>2. CASE look'[u] = look[u]
          BY <5>2
        <5>3. CASE look'[u] = [look[u] EXCEPT !.raced = TRUE]
          <6>1. Stores(look'[u], d) <=> Stores(look[u], d)
            BY <5>1, <5>3 DEF Stores, Looks
          <6> QED BY <6>1
        <5>4. CASE look'[u] = [NoLook EXCEPT !.pc = "drop"] /\ level'[look[u].at] = << >>
          <6>1. ~Stores(look'[u], d)
            BY <5>4 DEF Stores, NoLook
          <6>2. ~Stores(look[u], d)
            BY <4>2, <5>4 DEF Stores
          <6> QED BY <6>1, <6>2
        <5> QED BY <5>2, <5>3, <5>4 DEF Changes
      <4>4. Storing(d)' \ {t} = Storing(d) \ {t}
        BY <1>1, <2>1, <4>3 DEF Storing
      <4>5. One(t \in Storing(d)) = One(Stores(look[t], d))
        <5>1. t \notin busy => look[t] = NoLook
          BY DEF CacheInv, Caches
        <5>2. t \in Storing(d) <=> Stores(look[t], d)
          BY <5>1 DEF Storing, Stores, NoLook
        <5> QED BY <5>2 DEF One
      <4>6. One(t \in Storing(d)') = One(Stores(job, d))
        <5>1. t \notin busy' => job = NoLook
          OBVIOUS
        <5>2. t \in Storing(d)' <=> Stores(job, d)
          BY <5>1 DEF Storing, Stores, NoLook, Changes
        <5> QED BY <5>2 DEF One
      <4>7. /\ Cardinality(Storing(d)) = Cardinality(Storing(d) \ {t}) + One(Stores(look[t], d))
            /\ Cardinality(Storing(d)') = Cardinality(Storing(d) \ {t}) + One(Stores(job, d))
            /\ Cardinality(Storing(d) \ {t}) \in Nat
        BY <3>2, <4>4, <4>5, <4>6, OneMore
      <4>8. Len(level'[d]) + One(Stores(look[t], d))
              <= Len(level[d]) + One(Stores(job, d)) + (failed' - failed)
        BY <2>2, <3>6
      <4>9. One(Stores(look[t], d)) \in Int /\ One(Stores(job, d)) \in Int
        BY DEF One
      <4>10. PICK n \in Nat, m \in Nat, k \in Nat, a \in Int, b \in Int :
                /\ n = Len(level'[d]) /\ m = Len(level[d])
                /\ Cardinality(Storing(d)) = k + a /\ Cardinality(Storing(d)') = k + b
                /\ a = One(Stores(look[t], d)) /\ b = One(Stores(job, d))
        BY <3>4, <4>7, <4>9
      <4>11. m <= MaxEntries + failed + (k + a) /\ n + a <= m + b + (failed' - failed)
        BY <4>1, <4>8, <4>10
      <4>12. n <= MaxEntries + failed' + (k + b)
        BY <1>1, <3>4, <4>11, Room
      <4> QED BY <4>10, <4>12
    <3> QED BY <3>5, <3>6
  <2> QED BY <2>1, <2>2 DEF CountOK
<1> QED BY <1>2, <1>3, <1>4, <1>5, <1>6 DEF CacheInv

\* A step that changes what thread t is doing and nothing else.
LEMMA JobKeeps ==
    ASSUME CacheInv, NEW t \in Threads, Caches(t), NEW job \in Looks,
           look' = [look EXCEPT ![t] = job],
           UNCHANGED <<sharedVars, level, users, access, clock, back, failed>>,
           LookOK(job, level, users, clock, back), AllTimeOK(job.doomed, clock + back, back),
           MaxEntries > 0 => \A d \in Timed :
              Stores(look[t], d) => Stores(job, d) \/ Len(level[d]) <= MaxEntries,
           ~look[t].raced /\ Scanning(look[t], users) => ~job.raced /\ Scanning(job, users)
    PROVE  CacheInv'
<1>1. /\ look \in [Threads -> Looks] /\ failed \in Nat
      /\ level \in [Dicts -> Seq(Entry)] /\ CacheTyped
  BY DEF CacheInv, CacheTyped
<1>2. Changes(t, job, {})
  BY <1>1 DEF Changes
<1>3. adapter = "fastapi" => busy \subseteq {t} /\ ~look[t].raced /\ Scanning(look[t], users)
  BY DEF CacheInv, LoopOK, Caches
<1>4. part = "cache" /\ busy' = busy \cup {t} /\ part' = part /\ adapter' = adapter
  BY DEF Caches, sharedVars
<1>5. CacheTyped'
  <2>1. look' \in [Threads -> Looks]
    BY <1>1
  <2> QED BY <1>1, <2>1 DEF CacheTyped
<1>6. MaxEntries > 0 => \A d \in Timed :
              \/ Len(level'[d]) <= MaxEntries
              \/ Len(level'[d]) + One(Stores(look[t], d))
                    <= Len(level[d]) + One(Stores(job, d)) + (failed' - failed)
  <2> SUFFICES ASSUME MaxEntries > 0, NEW d \in Timed, ~(Len(level[d]) <= MaxEntries)
               PROVE  Len(level[d]) + One(Stores(look[t], d))
                        <= Len(level[d]) + One(Stores(job, d)) + (failed - failed)
    OBVIOUS
  <2>1. Stores(look[t], d) => Stores(job, d)
    OBVIOUS
  <2>2. /\ One(Stores(look[t], d)) <= One(Stores(job, d))
        /\ One(Stores(look[t], d)) \in Int /\ One(Stores(job, d)) \in Int
    BY <2>1 DEF One
  <2>3. Len(level[d]) \in Nat
    BY <1>1, NamesApart
  <2> QED BY <1>1, <2>2, <2>3
<1>7. failed <= failed' /\ users \ {} \subseteq users' /\ {} \in SUBSET Dicts
  BY <1>1
<1>8. t \in busy'
  BY <1>4
<1>9. LookOK(job, level', users', clock, back)
  OBVIOUS
<1>10. clock' = clock /\ back' = back
  OBVIOUS
<1>11. adapter = "fastapi" =>
              failed' = failed /\ (t \in busy' => ~job.raced /\ Scanning(job, users'))
  BY <1>3
<1> QED BY <1>2, <1>3, <1>4, <1>5, <1>6, <1>7, <1>8, <1>9, <1>10, <1>11, StepKeeps

\* A thread enters an operation that begins with job.
LEMMA BeginKeeps ==
    ASSUME CacheInv, NEW t \in Threads, NEW job \in Looks, Begin(t, job),
           job.doomed = << >>, ~job.put, ~job.raced, access' \in 0..CleanupPeriod - 1,
           UNCHANGED <<level, users, clock, back, failed>>,
           \/ job.pc = "look" /\ job.at = "none"
           \/ /\ job.pc = "pick" /\ job.at = "scenario" /\ job.key = "none"
              /\ job.size = Len(level["scenario"]),
           job.scans \in {<< >>, AllTimed}
    PROVE  CacheInv'
<1>1. /\ look \in [Threads -> Looks] /\ failed \in Nat /\ CacheTyped
      /\ level \in [Dicts -> Seq(Entry)]
  BY DEF CacheInv, CacheTyped
<1>2. /\ part = "cache" /\ part' = part /\ adapter' = adapter /\ busy' = busy \cup {t}
      /\ t \notin busy /\ (adapter = "fastapi" => busy = {})
      /\ look' = [look EXCEPT ![t] = job]
  BY DEF Begin, Enter, MayCall, NeverSuspend
<1>3. Changes(t, job, {})
  BY <1>1, <1>2 DEF Changes
<1>4. CacheTyped'
  <2>1. look' \in [Threads -> Looks]
    BY <1>1, <1>2
  <2> QED BY <1>1, <2>1 DEF CacheTyped
<1>5. LookOK(job, level', users', clock, back)
  <2>1. PlaceOK(job)
    BY NamesApart DEF PlaceOK, KeysOK
  <2> QED BY <2>1 DEF LookOK, InHand, Purges
<1>6. AllTimeOK(job.doomed, clock + back, back)
  BY DEF AllTimeOK
<1>7. Scanning(job, users')
  <2>1. CASE job.scans = << >>
    BY <2>1 DEF Scanning
  <2>2. CASE job.scans = AllTimed
    <3>1. /\ Len(AllTimed) = 3 /\ AllTimed[1] = "level_1" /\ AllTimed[2] = "users"
          /\ AllTimed[3] = "scenario"
      BY DEF AllTimed
    <3>2. "level_1" \notin Users /\ "users" \notin Users /\ "scenario" \notin Users
      BY CacheAssumption
    <3> QED BY <2>2, <3>1, <3>2 DEF Scanning
  <2> QED BY <2>1, <2>2
<1>8. \A d \in Timed : ~Stores(job, d) /\ ~Stores(look[t], d)
  <2>1. look[t] = NoLook
    BY <1>2 DEF CacheInv, Caches
  <2> QED BY <2>1 DEF Stores, NoLook
<1>9. MaxEntries > 0 => \A d \in Timed :
              \/ Len(level'[d]) <= MaxEntries
              \/ Len(level'[d]) + One(Stores(look[t], d))
                    <= Len(level[d]) + One(Stores(job, d)) + (failed' - failed)
  <2>1. \A d \in Timed : Len(level[d]) \in Nat
    BY <1>1, NamesApart
  <2>2. \A d \in Timed : One(Stores(job, d)) = 0 /\ One(Stores(look[t], d)) = 0
    BY <1>8 DEF One
  <2>3. level' = level /\ failed' = failed
    OBVIOUS
  <2> QED BY <1>1, <2>1, <2>2, <2>3
<1>10. failed <= failed' /\ users \ {} \subseteq users' /\ {} \in SUBSET Dicts /\ t \in busy'
  BY <1>1, <1>2
<1>11. clock' = clock /\ back' = back /\ failed' = failed
  OBVIOUS
<1> QED BY <1>2, <1>3, <1>4, <1>5, <1>6, <1>7, <1>9, <1>10, <1>11, StepKeeps

\* An operation is over: it served an entry, came to its end or raised.
LEMMA DoneKeeps ==
    ASSUME CacheInv, NEW t \in Threads, Caches(t), Done(t),
           UNCHANGED <<level, users, access, clock, back>>,
           \/ failed' = failed /\ look[t].pc \in {"check", "look"}
           \/ failed' = failed + 1 /\ adapter # "fastapi"
    PROVE  CacheInv'
<1>1. /\ look \in [Threads -> Looks] /\ failed \in Nat /\ CacheTyped
      /\ level \in [Dicts -> Seq(Entry)] /\ look[t] \in Looks
  BY DEF CacheInv, CacheTyped
<1>2. /\ part = "cache" /\ part' = part /\ adapter' = adapter /\ busy' = busy \ {t}
      /\ look' = [look EXCEPT ![t] = NoLook]
  BY DEF Done, Leave, Caches
<1>3. Changes(t, NoLook, {})
  BY <1>1, <1>2 DEF Changes
<1>4. CacheTyped'
  <2>1. look' \in [Threads -> Looks]
    BY <1>1, <1>2, NamesApart
  <2>2. failed' \in Nat
    BY <1>1
  <2> QED BY <1>1, <2>1, <2>2 DEF CacheTyped
<1>6. AllTimeOK(NoLook.doomed, clock + back, back)
  BY DEF AllTimeOK, NoLook
<1>8. ASSUME NEW d \in Timed PROVE
         Len(level'[d]) + One(Stores(look[t], d))
                    <= Len(level[d]) + One(Stores(NoLook, d)) + (failed' - failed)
  <2>1. Len(level[d]) \in Nat /\ level'[d] = level[d]
    BY <1>1, NamesApart
  <2>2. One(Stores(NoLook, d)) = 0
    BY DEF One, Stores, NoLook
  <2>3. CASE failed' = failed /\ look[t].pc \in {"check", "look"}
    <3>1. LookOK(look[t], level, users, clock, back)
      BY DEF CacheInv
    <3>2. look[t].pc = "check" => ~look[t].put
      BY <3>1 DEF LookOK, PlaceOK
    <3>3. look[t].pc = "look" => look[t].at # d
      BY <3>1, NamesApart DEF LookOK, PlaceOK
    <3>4. One(Stores(look[t], d)) = 0
      BY <2>3, <3>2, <3>3 DEF One, Stores
    <3> QED BY <1>1, <2>1, <2>2, <2>3, <3>4
  <2>4. CASE failed' = failed + 1
    <3>1. One(Stores(look[t], d)) <= 1 /\ One(Stores(look[t], d)) \in Int
      BY DEF One
    <3> QED BY <1>1, <2>1, <2>2, <2>4, <3>1
  <2> QED BY <2>3, <2>4
<1>9. adapter = "fastapi" => busy \subseteq {t}
  BY DEF CacheInv, LoopOK, Caches
<1>10. failed <= failed' /\ users \ {} \subseteq users' /\ {} \in SUBSET Dicts /\ t \notin busy'
  BY <1>1, <1>2
<1>11. clock' = clock /\ back' = back /\ NoLook \in Looks
  BY NamesApart
<1> QED BY <1>2, <1>3, <1>4, <1>6, <1>8, <1>9, <1>10, <1>11, StepKeeps

-----------------------------------------------------------------------------
(* The operations of the cache, one by one.                                *)

\* The operations that begin with a look.
LEMMA Begins ==
    ASSUME CacheInv, NEW t \in Threads,
           \/ \E q \in Queries : GetScenarioCache(t, q) \/ \E u \in Users : Query(t, u, q)
           \/ ClearExpired(t) \/ ClearScenario(t)
    PROVE  CacheInv'
<1>0. /\ access \in 0..CleanupPeriod - 1 /\ level \in [Dicts -> Seq(Entry)]
      /\ Len(level["scenario"]) \in Nat
  <2>1. level["scenario"] \in Seq(Entry)
    BY NamesApart DEF CacheInv, CacheTyped
  <2> QED BY <2>1 DEF CacheInv, CacheTyped
<1>1. << >> \in Seq(Dicts) /\ << >> \in Seq(Timed \cup {"users"}) /\ << >> \in Seq(Entry)
  OBVIOUS
<1>2. AllTimed \in Seq(Timed \cup {"users"})
  BY NamesApart DEF AllTimed
<1>3. ASSUME NEW q \in Queries, NEW u \in Users, Query(t, u, q) PROVE CacheInv'
  <2> DEFINE n == (access + 1) % CleanupPeriod
             sc == IF n = 0 THEN AllTimed ELSE << >>
             job == [NoLook EXCEPT !.key = q, !.todo = <<"level_1", u, "level_3">>, !.scans = sc]
  <2>1. n \in 0..CleanupPeriod - 1
    BY <1>0, CacheAssumption
  <2>2. <<"level_1", u, "level_3">> \in Seq(Dicts)
    BY NamesApart
  <2>3. sc \in {<< >>, AllTimed} /\ sc \in Seq(Timed \cup {"users"})
    BY <1>1, <1>2
  <2>4. /\ access' = n /\ Begin(t, job) /\ UNCHANGED <<level, users, clock, back, failed>>
    BY <1>3 DEF Query
  <2> HIDE DEF n, sc
  <2>5. job \in Looks
    BY <1>1, <2>2, <2>3 DEF NoLook, Looks
  <2>6. /\ job.doomed = << >> /\ ~job.put /\ ~job.raced /\ job.pc = "look" /\ job.at = "none"
        /\ job.scans = sc
    BY DEF NoLook
  <2> HIDE DEF job
  <2> QED BY <2>1, <2>3, <2>4, <2>5, <2>6, BeginKeeps
<1>4. ASSUME NEW q \in Queries, GetScenarioCache(t, q) PROVE CacheInv'
  <2> DEFINE job == [NoLook EXCEPT !.key = q, !.todo = <<"scenario">>]
  <2>1. <<"scenario">> \in Seq(Dicts)
    BY NamesApart
  <2>2. /\ access' \in 0..CleanupPeriod - 1
        /\ Begin(t, job) /\ UNCHANGED <<level, users, clock, back, failed>>
    BY <1>0, <1>4 DEF GetScenarioCache
  <2>3. job \in Looks
    BY <1>1, <2>1 DEF NoLook, Looks
  <2>4. /\ job.doomed = << >> /\ ~job.put /\ ~job.raced /\ job.pc = "look" /\ job.at = "none"
        /\ job.scans = << >>
    BY DEF NoLook
  <2> HIDE DEF job
  <2> QED BY <2>2, <2>3, <2>4, BeginKeeps
<1>5. CASE ClearExpired(t)
  <2> DEFINE job == [NoLook EXCEPT !.scans = AllTimed]
  <2>2. /\ access' \in 0..CleanupPeriod - 1
        /\ Begin(t, job) /\ UNCHANGED <<level, users, clock, back, failed>>
    BY <1>0, <1>5 DEF ClearExpired
  <2>3. job \in Looks
    BY <1>1, <1>2 DEF NoLook, Looks
  <2>4. /\ job.doomed = << >> /\ ~job.put /\ ~job.raced /\ job.pc = "look" /\ job.at = "none"
        /\ job.scans = AllTimed
    BY DEF NoLook
  <2> HIDE DEF job
  <2> QED BY <2>2, <2>3, <2>4, BeginKeeps
<1>6. CASE ClearScenario(t)
  <2> DEFINE job == [NoLook EXCEPT !.pc = "pick", !.at = "scenario", !.size = Len(level["scenario"])]
  <2>2. /\ access' \in 0..CleanupPeriod - 1
        /\ Begin(t, job) /\ UNCHANGED <<level, users, clock, back, failed>>
    BY <1>0, <1>6 DEF ClearScenario
  <2>3. job \in Looks
    BY <1>0, <1>1, NamesApart DEF NoLook, Looks
  <2>4. /\ job.doomed = << >> /\ ~job.put /\ ~job.raced /\ job.pc = "pick" /\ job.at = "scenario"
        /\ job.size = Len(level["scenario"]) /\ job.scans = << >> /\ job.key = "none"
    BY DEF NoLook
  <2> HIDE DEF job
  <2> QED BY <2>2, <2>3, <2>4, BeginKeeps
<1> QED BY <1>3, <1>4, <1>5, <1>6

\* What a thread may rely on in the middle of an operation.
LEMMA HereIs ==
    ASSUME CacheInv, NEW t \in Threads, Caches(t)
    PROVE  /\ look \in [Threads -> Looks] /\ look[t] \in Looks
           /\ LookOK(look[t], level, users, clock, back)
           /\ AllTimeOK(look[t].doomed, clock + back, back)
           /\ look[t].doomed \in Seq(Entry) /\ look[t].scans \in Seq(Timed \cup {"users"})
           /\ look[t].todo \in Seq(Dicts)
           /\ \A d \in Dicts : level[d] \in Seq(Entry) /\ Len(level[d]) \in Nat /\ KeysOK(level[d])
                               /\ AllTimeOK(level[d], clock + back, back)
           /\ look[t].at \in Dicts \cup {"none"}
<1>1. /\ look \in [Threads -> Looks] /\ look[t] \in Looks /\ level \in [Dicts -> Seq(Entry)]
      /\ LookOK(look[t], level, users, clock, back)
      /\ AllTimeOK(look[t].doomed, clock + back, back)
      /\ \A d \in Dicts : KeysOK(level[d]) /\ AllTimeOK(level[d], clock + back, back)
  BY DEF CacheInv, CacheTyped, TimesOK
<1>2. \A d \in Dicts : level[d] \in Seq(Entry) /\ Len(level[d]) \in Nat
  BY <1>1
<1> QED BY <1>1, <1>2 DEF Looks

\* The first of a sequence, and the rest.
LEMMA TailScans ==
    ASSUME NEW S, NEW s \in Seq(S), s # << >>
    PROVE  /\ Tail(s) \in Seq(S) /\ Head(s) \in S /\ Len(s) \in Nat /\ Len(s) >= 1
           /\ Len(Tail(s)) = Len(s) - 1
           /\ Head(s) = s[1] /\ \A i \in 1..Len(s) - 1 : Tail(s)[i] = s[i + 1]
<1>1. Len(s) \in Nat /\ Len(s) >= 1
  BY EmptySeq, LenProperties
<1> QED BY <1>1, HeadTailProperties

\* Its dictionary is there, and is listed next.
LEMMA ScanKeeps ==
    ASSUME CacheInv, NEW t \in Threads, Scan(t)
    PROVE  CacheInv'
<1>1. Caches(t)
  BY DEF Scan, InCache, Caches
<1> DEFINE f == look[t]
           d == Head(f.scans)
           job == [f EXCEPT !.pc = "list", !.at = d, !.scans = Tail(f.scans),
                            !.size = Len(level[d]), !.raced = FALSE]
<1>2. /\ f.pc = "look" /\ f.scans # << >> /\ d \in Timed /\ (d \in Users => d \in users)
      /\ look' = [look EXCEPT ![t] = job]
      /\ UNCHANGED <<sharedVars, level, users, access, clock, back, failed>>
  BY DEF Scan, InCache
<1>3. f \in Looks /\ PlaceOK(f) /\ f.doomed \in Seq(Entry) /\ Tail(f.scans) \in Seq(Timed \cup {"users"})
      /\ AllTimeOK(f.doomed, clock + back, back) /\ d \in Dicts /\ Len(level[d]) \in Nat
  BY <1>1, <1>2, HereIs, TailScans, NamesApart DEF LookOK
<1> HIDE DEF d
<1>4. /\ job \in Looks /\ job.pc = "list" /\ job.at = d /\ job.scans = Tail(f.scans) /\ ~job.raced
      /\ job.size = Len(level[d]) /\ job.put = f.put /\ job.doomed = f.doomed
  BY <1>3 DEF Looks
<1>5. d \notin Users \/ d \in users
  BY <1>2
<1>6. PlaceOK(job) /\ ~f.put
  BY <1>2, <1>3, <1>4 DEF PlaceOK
<1>7. LookOK(job, level, users, clock, back)
  <2>1. InHand(job, level[job.at])
    BY <1>4 DEF InHand
  <2> QED BY <1>4, <1>5, <1>6, <2>1 DEF LookOK, Purges
<1>8. Scanning(f, users) => Scanning(job, users)
  <2> SUFFICES ASSUME Scanning(f, users) PROVE Scanning(job, users)
    OBVIOUS
  <2> DEFINE s == f.scans
  <2>1. /\ Len(s) \in Nat /\ Len(s) >= 1 /\ Len(Tail(s)) = Len(s) - 1 /\ s[1] = d
        /\ \A i \in 1..Len(s) - 1 : Tail(s)[i] = s[i + 1]
    BY <1>1, <1>2, HereIs, TailScans DEF d
  <2>2. \A i \in 1..Len(s) - 1 : i + 1 \in 1..Len(s) /\ i + 1 # 1 /\ 1 \in 1..Len(s)
    BY <2>1
  <2>3. \A i, j \in 1..Len(s) - 1 : i + 1 = j + 1 => i = j
    BY <2>1
  <2>4. /\ \A i \in 1..Len(s) : s[i] \in Users => s[i] \in users
        /\ \A i, j \in 1..Len(s) : s[i] = s[j] => i = j
        /\ \A i, j \in 1..Len(s) : s[i] = "users" => s[j] \notin Users
    BY DEF Scanning
  <2> HIDE DEF s
  <2>5. \A i \in 1..Len(Tail(s)) : Tail(s)[i] \in Users => Tail(s)[i] \in users /\ Tail(s)[i] # d
    BY <2>1, <2>2, <2>4
  <2>6. \A i, j \in 1..Len(Tail(s)) : Tail(s)[i] = Tail(s)[j] => i = j
    BY <2>1, <2>2, <2>3, <2>4
  <2>7. \A i, j \in 1..Len(Tail(s)) : Tail(s)[i] = "users" => Tail(s)[j] \notin Users
    BY <2>1, <2>2, <2>4
  <2> QED BY <1>4, <2>5, <2>6, <2>7 DEF Scanning, s
<1>9. \A e \in Timed : ~Stores(f, e)
  BY <1>6 DEF Stores
<1> QED BY <1>1, <1>2, <1>3, <1>4, <1>7, <1>8, <1>9, JobKeeps

\* The users are listed, each once, while they are all there.
LEMMA ListUsersKeeps ==
    ASSUME CacheInv, NEW t \in Threads, ListUsers(t)
    PROVE  CacheInv'
<1>1. Caches(t)
  BY DEF ListUsers, InCache, Caches
<1> DEFINE f == look[t]
           l == SetToSeq(users)
           r == Tail(f.scans)
           job == [f EXCEPT !.scans = l \o r]
<1>2. /\ f.pc = "look" /\ f.scans # << >> /\ Head(f.scans) = "users"
      /\ look' = [look EXCEPT ![t] = job]
      /\ UNCHANGED <<sharedVars, level, users, access, clock, back, failed>>
  BY <1>1, HereIs DEF ListUsers, InCache
<1>3. /\ f \in Looks /\ PlaceOK(f) /\ r \in Seq(Timed \cup {"users"})
      /\ AllTimeOK(f.doomed, clock + back, back)
  BY <1>1, <1>2, HereIs, TailScans DEF LookOK
<1>4. /\ l \in Seq(Users) /\ Len(l) \in Nat /\ \A i \in 1..Len(l) : l[i] \in users
      /\ \A i, j \in 1..Len(l) : l[i] = l[j] => i = j
  <2>1. IsFiniteSet(users) /\ users \subseteq Users
    BY DEF CacheInv, CacheTyped
  <2>2. Cardinality(users) \in Nat
    BY <2>1, FS_CardinalityType
  <2>3. \E g \in [1..Cardinality(users) -> users] : IsInjective(g)
    <3>1. ExistsBijection(1..Cardinality(users), users)
      BY <2>1, <2>2, FS_NatBijection, FS_CardinalityType
    <3> QED BY <3>1 DEF ExistsBijection, Bijection, Injection, IsInjective
  <2>4. l \in [1..Cardinality(users) -> users] /\ IsInjective(l)
    BY <2>3 DEF SetToSeq
  <2> HIDE DEF l
  <2>5. l \in Seq(users)
    BY <2>2, <2>4, SeqDef
  <2>6. l \in Seq(Users) /\ DOMAIN l = 1..Len(l) /\ Len(l) \in Nat
    <3>1. l \in [1..Cardinality(users) -> Users]
      BY <2>1, <2>4
    <3> QED BY <2>2, <2>5, <3>1, SeqDef, LenProperties
  <2> QED BY <2>4, <2>6 DEF IsInjective
<1>5. /\ l \o r \in Seq(Timed \cup {"users"}) /\ Len(l \o r) = Len(l) + Len(r) /\ Len(r) \in Nat
      /\ \A i \in 1..Len(l) + Len(r) : (l \o r)[i] = IF i <= Len(l) THEN l[i] ELSE r[i - Len(l)]
  <2>1. l \in Seq(Timed \cup {"users"})
    <3> HIDE DEF l
    <3>1. Users \subseteq Timed \cup {"users"}
      BY NamesApart
    <3> QED BY <1>4, <3>1
  <2> HIDE DEF l, r
  <2> QED BY <1>3, <2>1, ConcatProperties
<1> HIDE DEF l
<1>6. /\ job \in Looks /\ job.pc = "look" /\ job.at = f.at /\ job.scans = l \o r /\ job.raced = f.raced
      /\ job.size = f.size /\ job.put = f.put /\ job.doomed = f.doomed /\ job.todo = f.todo
  BY <1>2, <1>3, <1>5 DEF Looks
<1>7. LookOK(job, level, users, clock, back)
  <2>1. PlaceOK(job)
    BY <1>2, <1>3, <1>6 DEF PlaceOK
  <2> QED BY <1>2, <1>3, <1>6, <2>1 DEF LookOK, PlaceOK
<1>8. Scanning(f, users) => Scanning(job, users)
  <2> SUFFICES ASSUME Scanning(f, users) PROVE Scanning(job, users)
    OBVIOUS
  <2> DEFINE s == f.scans
             n == Len(l)
             w == l \o r
  <2>1. /\ Len(s) \in Nat /\ Len(s) >= 1 /\ Len(r) = Len(s) - 1 /\ s[1] = "users"
        /\ \A i \in 1..Len(s) - 1 : r[i] = s[i + 1]
    BY <1>1, <1>2, HereIs, TailScans
  <2>2. \A i \in 1..Len(s) - 1 : i + 1 \in 1..Len(s) /\ i + 1 # 1 /\ 1 \in 1..Len(s)
    BY <2>1
  <2>3. \A i, j \in 1..Len(s) - 1 : i + 1 = j + 1 => i = j
    BY <2>1
  <2>4. /\ \A i, j \in 1..Len(s) : s[i] = s[j] => i = j
        /\ \A i, j \in 1..Len(s) : s[i] = "users" => s[j] \notin Users
    BY DEF Scanning
  <2> HIDE DEF s, r
  <2>5. \A i \in 1..Len(r) : r[i] \notin Users /\ r[i] # "users"
    BY <2>1, <2>2, <2>4
  <2>6. \A i, j \in 1..Len(r) : r[i] = r[j] => i = j
    BY <2>1, <2>2, <2>3, <2>4
  <2>7. \A i \in 1..Len(l) : l[i] \in users /\ l[i] \in Users /\ l[i] # "users"
    BY <1>4, NamesApart DEF CacheInv, CacheTyped
  <2>8. \A i \in 1..n + Len(r) :
           \/ i \in 1..n /\ w[i] = l[i]
           \/ i - n \in 1..Len(r) /\ i \notin 1..n /\ w[i] = r[i - n]
    BY <1>4, <1>5
  <2>9. Len(w) = n + Len(r) /\ n \in Nat /\ Len(r) \in Nat
    BY <1>4, <1>5
  <2> HIDE DEF w, n
  <2>10. \A i \in 1..Len(w) : w[i] # "users" /\ (w[i] \in Users => w[i] \in users)
    BY <2>5, <2>7, <2>8, <2>9 DEF n
  <2>11. ASSUME NEW i \in 1..Len(w), NEW j \in 1..Len(w), w[i] = w[j] PROVE i = j
    <3>1. CASE i \in 1..n /\ j \in 1..n
      BY <1>4, <2>8, <2>9, <2>11, <3>1 DEF n
    <3>2. CASE i \notin 1..n /\ j \notin 1..n
      <4>1. i - n = j - n
        BY <2>6, <2>8, <2>9, <2>11, <3>2
      <4> QED BY <2>9, <4>1
    <3>3. ASSUME NEW x \in 1..Len(w), NEW y \in 1..Len(w), x \in 1..n, y \notin 1..n PROVE w[x] # w[y]
      BY <2>5, <2>7, <2>8, <2>9, <3>3 DEF n
    <3> QED BY <2>11, <3>1, <3>2, <3>3
  <2>12. \A i \in 1..Len(w) : w[i] \in Users => w[i] # "none"
    BY NamesApart
  <2>13. job.at = "none" /\ job.scans = w
    BY <1>2, <1>3, <1>6 DEF PlaceOK, w
  <2> QED BY <2>10, <2>11, <2>12, <2>13 DEF Scanning
<1>9. \A e \in Timed : ~Stores(f, e)
  BY <1>2, <1>3, NamesApart DEF Stores, PlaceOK
<1> HIDE DEF f, job
<1>10. AllTimeOK(job.doomed, clock + back, back)
  BY <1>3, <1>6
<1>11. look' = [look EXCEPT ![t] = job] /\ UNCHANGED <<sharedVars, level, users, access, clock, back, failed>>
  BY <1>2
<1> QED BY <1>1, <1>6, <1>7, <1>8, <1>9, <1>10, <1>11, JobKeeps DEF f

\* What is picked from a dictionary is in hand.
LEMMA PickedInHand ==
    ASSUME NEW s \in Seq(Entry), KeysOK(s), NEW K \in SUBSET (1..Len(s)), NEW c, NEW b, AllTimeOK(s, c, b)
    PROVE  /\ Picked(s, K) \in Seq(Entry) /\ KeysOK(Picked(s, K)) /\ AllTimeOK(Picked(s, K), c, b)
           /\ \A i \in 1..Len(Picked(s, K)) : \E k \in K : s[k] = Picked(s, K)[i]
<1>1. /\ Picked(s, K) \in Seq(Entry) /\ KeysOK(Picked(s, K))
      /\ \A n \in 1..Len(Picked(s, K)) : \E k \in K : Picked(s, K)[n] = s[k]
  BY PickedIs
<1>2. AllTimeOK(Picked(s, K), c, b)
  <2>1. \A k \in K : k \in 1..Len(s)
    OBVIOUS
  <2> QED BY <1>1, <2>1 DEF AllTimeOK
<1> QED BY <1>1, <1>2

\* What is listed as expired is expired.
LEMMA ListExpiredKeeps ==
    ASSUME CacheInv, NEW t \in Threads, ListExpired(t)
    PROVE  CacheInv'
<1>1. Caches(t)
  BY DEF ListExpired, InCache, Caches
<1> DEFINE f == look[t]
           s == level[f.at]
           K == {i \in DOMAIN s : Expired(s[i])}
           job == [f EXCEPT !.pc = "purge", !.size = 0, !.doomed = Picked(s, K)]
<1>2. /\ f.pc = "list" /\ look' = [look EXCEPT ![t] = job]
      /\ UNCHANGED <<sharedVars, level, users, access, clock, back, failed>>
  BY DEF ListExpired, InCache
<1>3. /\ f \in Looks /\ LookOK(f, level, users, clock, back) /\ PlaceOK(f)
      /\ f.at \in Timed /\ f.at \in Dicts /\ ~f.put
  BY <1>1, <1>2, HereIs, NamesApart DEF LookOK, PlaceOK
<1>4. s \in Seq(Entry) /\ KeysOK(s) /\ AllTimeOK(s, clock + back, back) /\ DOMAIN s = 1..Len(s)
  BY <1>1, <1>3, HereIs
<1>5. K \in SUBSET (1..Len(s)) /\ \A k \in K : Expired(s[k])
  BY <1>4
<1> DEFINE v == Picked(s, K)
<1> HIDE DEF K
<1>6. /\ v \in Seq(Entry) /\ KeysOK(v) /\ AllTimeOK(v, clock + back, back)
      /\ \A i \in 1..Len(v) : \E k \in K : s[k] = v[i]
  BY <1>4, <1>5, PickedInHand
<1> HIDE DEF v
<1>7. /\ job \in Looks /\ job.pc = "purge" /\ job.at = f.at /\ job.scans = f.scans /\ job.todo = f.todo
      /\ job.put = f.put /\ job.doomed = v /\ job.raced = f.raced
  BY <1>3, <1>6 DEF Looks, v
<1>8. LookOK(job, level, users, clock, back)
  <2>1. PlaceOK(job)
    BY <1>3, <1>6, <1>7 DEF PlaceOK
  <2>2. InHand(job, level[job.at])
    BY <1>5, <1>6, <1>7 DEF InHand
  <2>3. AllExpired(v, clock)
    <3>1. ASSUME NEW i \in 1..Len(v) PROVE v[i].ttl # Never /\ clock > v[i].made + v[i].ttl
      <4>1. PICK k \in K : s[k] = v[i]
        BY <1>6
      <4> QED BY <1>5, <4>1 DEF Expired
    <3> QED BY <3>1 DEF AllExpired
  <2> QED BY <1>2, <1>3, <1>7, <2>1, <2>2, <2>3 DEF LookOK
<1>9. Scanning(f, users) => Scanning(job, users)
  BY <1>7 DEF Scanning
<1>10. \A d \in Timed : ~Stores(f, d)
  BY <1>3 DEF Stores
<1> HIDE DEF f, job
<1> QED BY <1>1, <1>2, <1>6, <1>7, <1>8, <1>9, <1>10, JobKeeps DEF f

\* What is listed of a scenario is in the cache.
LEMMA PickScenarioKeeps ==
    ASSUME CacheInv, NEW t \in Threads, NEW Q, PickScenario(t, Q)
    PROVE  CacheInv'
<1>1. Caches(t)
  BY DEF PickScenario, InCache, Caches
<1> DEFINE f == look[t]
           s == level["scenario"]
           K == {i \in DOMAIN s : s[i].key \in Q}
           job == [f EXCEPT !.pc = "drop", !.size = 0, !.doomed = Picked(s, K)]
<1>2. /\ f.pc = "pick" /\ look' = [look EXCEPT ![t] = job]
      /\ UNCHANGED <<sharedVars, level, users, access, clock, back, failed>>
  BY DEF PickScenario, InCache
<1>3. /\ f \in Looks /\ LookOK(f, level, users, clock, back) /\ PlaceOK(f)
      /\ f.at = "scenario" /\ "scenario" \in Timed /\ "scenario" \in Dicts /\ ~f.put
      /\ f.key = "none"
  BY <1>1, <1>2, HereIs, NamesApart DEF LookOK, PlaceOK
<1>4. s \in Seq(Entry) /\ KeysOK(s) /\ AllTimeOK(s, clock + back, back) /\ DOMAIN s = 1..Len(s)
  BY <1>1, <1>3, HereIs
<1>5. K \in SUBSET (1..Len(s))
  BY <1>4
<1> DEFINE v == Picked(s, K)
<1> HIDE DEF K
<1>6. /\ v \in Seq(Entry) /\ KeysOK(v) /\ AllTimeOK(v, clock + back, back)
      /\ \A i \in 1..Len(v) : \E k \in K : s[k] = v[i]
  BY <1>4, <1>5, PickedInHand
<1> HIDE DEF v
<1>7. /\ job \in Looks /\ job.pc = "drop" /\ job.at = f.at /\ job.scans = f.scans /\ job.todo = f.todo
      /\ job.put = f.put /\ job.doomed = v /\ job.raced = f.raced /\ job.key = f.key
  BY <1>3, <1>6 DEF Looks, v
<1>8. LookOK(job, level, users, clock, back)
  <2>1. PlaceOK(job)
    BY <1>3, <1>6, <1>7 DEF PlaceOK
  <2>2. InHand(job, level[job.at])
    BY <1>3, <1>5, <1>6, <1>7 DEF InHand
  <2> QED BY <1>2, <1>3, <1>7, <2>1, <2>2 DEF LookOK, Purges
<1>9. Scanning(f, users) => Scanning(job, users)
  BY <1>7 DEF Scanning
<1>10. \A d \in Timed : ~Stores(f, d)
  BY <1>3 DEF Stores
<1> HIDE DEF f, job
<1> QED BY <1>1, <1>2, <1>6, <1>7, <1>8, <1>9, <1>10, JobKeeps DEF f

\* The keys of a dictionary that is not too large are left alone.
LEMMA ListKeysKeeps ==
    ASSUME CacheInv, NEW t \in Threads, ListKeys(t)
    PROVE  CacheInv'
<1>1. Caches(t)
  BY DEF ListKeys, InCache, Caches
<1> DEFINE f == look[t]
           s == level[f.at]
           over == MaxEntries > 0 /\ Len(s) > MaxEntries
           v == IF over THEN s ELSE << >>
           job == [f EXCEPT !.pc = IF over THEN "sort" ELSE "drop", !.doomed = v, !.raced = FALSE]
<1>2. /\ f.pc = "evict" /\ look' = [look EXCEPT ![t] = job]
      /\ UNCHANGED <<sharedVars, level, users, access, clock, back, failed>>
  BY DEF ListKeys, InCache
<1>3. /\ f \in Looks /\ LookOK(f, level, users, clock, back) /\ PlaceOK(f)
      /\ f.at \in Timed /\ f.at \in Dicts /\ f.put
  BY <1>1, <1>2, HereIs, NamesApart DEF LookOK, PlaceOK
<1>4. s \in Seq(Entry) /\ Len(s) \in Nat /\ KeysOK(s) /\ AllTimeOK(s, clock + back, back)
  BY <1>1, <1>3, HereIs
<1>5. over => s # << >>
  BY <1>4, CacheAssumption
<1> HIDE DEF over, s
<1>6. v \in Seq(Entry) /\ AllTimeOK(v, clock + back, back) /\ (over => v = s) /\ (~over => v = << >>)
  BY <1>4 DEF AllTimeOK
<1> HIDE DEF v
<1>7. /\ job \in Looks /\ job.pc = (IF over THEN "sort" ELSE "drop") /\ job.at = f.at
      /\ job.scans = f.scans /\ job.todo = f.todo
      /\ job.put = f.put /\ job.doomed = v /\ job.raced = FALSE
  BY <1>3, <1>6 DEF Looks
<1>8. LookOK(job, level, users, clock, back)
  <2>1. CASE over
    <3>1. PlaceOK(job)
      BY <1>3, <1>4, <1>5, <1>6, <1>7, <2>1 DEF PlaceOK
    <3>2. InHand(job, level[job.at])
      BY <1>6, <1>7, <2>1 DEF InHand, s
    <3> QED BY <1>7, <2>1, <3>1, <3>2 DEF LookOK, Purges
  <2>2. CASE ~over
    <3>1. PlaceOK(job)
      BY <1>3, <1>6, <1>7, <2>2 DEF PlaceOK, KeysOK
    <3>2. InHand(job, level[job.at]) /\ OldFirst(job.doomed, level[job.at])
      BY <1>6, <1>7, <2>2 DEF InHand, OldFirst
    <3> QED BY <1>3, <1>7, <2>2, <3>1, <3>2 DEF LookOK, Purges
  <2> QED BY <2>1, <2>2
<1>9. Scanning(f, users) => Scanning(job, users)
  BY <1>7 DEF Scanning
<1>10. MaxEntries > 0 => \A d \in Timed : Stores(f, d) => Stores(job, d) \/ Len(level[d]) <= MaxEntries
  <2> SUFFICES ASSUME MaxEntries > 0, NEW d \in Timed, Stores(f, d)
               PROVE  Stores(job, d) \/ Len(level[d]) <= MaxEntries
    OBVIOUS
  <2>1. d = f.at
    BY DEF Stores
  <2>2. CASE over
    BY <1>3, <1>7, <2>1, <2>2 DEF Stores
  <2>3. CASE ~over
    BY <1>4, <2>1, <2>3, CacheAssumption DEF over, s
  <2> QED BY <2>2, <2>3
<1> HIDE DEF f, job
<1> QED BY <1>1, <1>2, <1>6, <1>7, <1>8, <1>9, <1>10, JobKeeps DEF f

\* What is sorted and cut is the oldest of the dictionary.
LEMMA EvictOldestKeeps ==
    ASSUME CacheInv, NEW t \in Threads, EvictOldest(t)
    PROVE  CacheInv'
<1>1. Caches(t)
  BY DEF EvictOldest, InCache, Caches
<1> DEFINE f == look[t]
           s == level[f.at]
           x == Len(s) - MaxEntries
           v == Oldest(f.doomed, x)
           job == [f EXCEPT !.pc = "drop", !.doomed = v]
<1>2. /\ f.pc = "sort" /\ look' = [look EXCEPT ![t] = job]
      /\ UNCHANGED <<sharedVars, level, users, access, clock, back, failed>>
  BY DEF EvictOldest, InCache
<1>3. /\ f \in Looks /\ LookOK(f, level, users, clock, back) /\ PlaceOK(f)
      /\ f.at \in Timed /\ f.at \in Dicts /\ f.put /\ f.doomed # << >> /\ f.doomed \in Seq(Entry)
      /\ AllTimeOK(f.doomed, clock + back, back) /\ f.at # "none"
  BY <1>1, <1>2, HereIs, NamesApart DEF LookOK, PlaceOK
<1>4. s \in Seq(Entry) /\ Len(s) \in Nat /\ KeysOK(s) /\ x \in Int
  BY <1>1, <1>3, HereIs, CacheAssumption
<1>5. ~f.raced => f.doomed = s
  BY <1>2, <1>3 DEF LookOK, InHand
<1> HIDE DEF x
<1>6. /\ KeysOK(f.doomed)
      /\ \A i \in 1..Len(f.doomed) : TimeOK(f.doomed[i], clock + back, back)
  BY <1>3 DEF PlaceOK, AllTimeOK
<1>7. /\ v \in Seq(Entry) /\ KeysOK(v)
      /\ x > 0 => v # << >>
      /\ \A i \in 1..Len(v) : \E k \in 1..Len(f.doomed) : v[i] = f.doomed[k]
      /\ OldFirst(v, f.doomed)
  BY <1>3, <1>4, <1>6, OldestIs DEF OldFirst
<1> HIDE DEF v
<1>8. AllTimeOK(v, clock + back, back)
  BY <1>6, <1>7 DEF AllTimeOK
<1>9. /\ job \in Looks /\ job.pc = "drop" /\ job.at = f.at /\ job.scans = f.scans /\ job.todo = f.todo
      /\ job.put = f.put /\ job.doomed = v /\ job.raced = f.raced
  BY <1>3, <1>7 DEF Looks
<1>10. LookOK(job, level, users, clock, back)
  <2>1. PlaceOK(job)
    BY <1>3, <1>7, <1>9 DEF PlaceOK
  <2>2. ~f.raced => InHand(job, level[job.at]) /\ OldFirst(v, level[job.at])
    BY <1>5, <1>7, <1>9 DEF InHand
  <2> QED BY <1>3, <1>9, <2>1, <2>2 DEF LookOK, Purges
<1>11. Scanning(f, users) => Scanning(job, users)
  BY <1>9 DEF Scanning
<1>12. MaxEntries > 0 => \A d \in Timed : Stores(f, d) => Stores(job, d) \/ Len(level[d]) <= MaxEntries
  <2> SUFFICES ASSUME MaxEntries > 0, NEW d \in Timed, Stores(f, d)
               PROVE  Stores(job, d) \/ Len(level[d]) <= MaxEntries
    OBVIOUS
  <2>1. d = f.at
    BY DEF Stores
  <2>2. CASE x > 0
    BY <1>3, <1>7, <1>9, <2>1, <2>2 DEF Stores
  <2>3. CASE ~(x > 0)
    BY <1>4, <2>1, <2>3, CacheAssumption DEF x
  <2> QED BY <2>2, <2>3
<1> HIDE DEF f, job
<1> QED BY <1>1, <1>2, <1>8, <1>9, <1>10, <1>11, <1>12, JobKeeps DEF f

\* After the last deletion a dictionary is no longer above its limit because of t.
LEMMA DroppedKeeps ==
    ASSUME CacheInv, NEW t \in Threads, Dropped(t)
    PROVE  CacheInv'
<1>1. Caches(t)
  BY DEF Dropped, InCache, Caches
<1> DEFINE f == look[t]
           gone == f.pc = "purge" /\ f.at \in Users /\ level[f.at] = << >>
           job == IF gone THEN [f EXCEPT !.pc = "unlist", !.raced = FALSE]
                  ELSE [f EXCEPT !.pc = "look", !.at = "none", !.raced = FALSE]
<1>2. /\ f.pc \in {"drop", "purge"} /\ f.doomed = << >> /\ look' = [look EXCEPT ![t] = job]
      /\ f.pc = "purge" => f.at \notin Users \ users
      /\ UNCHANGED <<sharedVars, level, users, access, clock, back, failed>>
  BY DEF Dropped, InCache
<1>3. f \in Looks /\ PlaceOK(f) /\ AllTimeOK(f.doomed, clock + back, back)
  BY <1>1, HereIs DEF LookOK
<1>4. /\ job \in Looks /\ job.pc = (IF gone THEN "unlist" ELSE "look")
      /\ job.at = (IF gone THEN f.at ELSE "none") /\ job.scans = f.scans /\ job.todo = f.todo
      /\ job.put = f.put /\ job.doomed = f.doomed /\ job.raced = FALSE
  BY <1>3 DEF Looks
<1>5. LookOK(job, level, users, clock, back)
  <2>1. CASE gone
    <3>1. PlaceOK(job) /\ InHand(job, level[job.at])
      BY <1>2, <1>3, <1>4, <2>1 DEF PlaceOK, InHand
    <3>2. f.at \in users
      BY <1>2, <2>1
    <3> QED BY <1>4, <2>1, <3>1, <3>2 DEF LookOK, Purges
  <2>2. CASE ~gone
    <3>1. PlaceOK(job)
      BY <1>2, <1>3, <1>4, <2>2 DEF PlaceOK
    <3> QED BY <1>4, <2>2, <3>1 DEF LookOK
  <2> QED BY <2>1, <2>2
<1>6. Scanning(f, users) => Scanning(job, users)
  <2>1. \A i : f.scans[i] \in Users => f.scans[i] # "none"
    BY NamesApart
  <2> QED BY <1>4, <2>1 DEF Scanning
<1>7. \A d \in Timed : ~Stores(f, d)
  BY <1>2 DEF Stores
<1> HIDE DEF f, job
<1> QED BY <1>1, <1>2, <1>3, <1>4, <1>5, <1>6, <1>7, JobKeeps DEF f

\* An entry that is found is in the dictionary.
LEMMA AskedKeeps ==
    ASSUME CacheInv, NEW t \in Threads, Caches(t), NEW d \in Dicts, NEW rest \in Seq(Dicts),
           Asked(t, d, rest), ~look[t].put,
           look[t].scans = << >>,
           UNCHANGED <<sharedVars, level, users, access, clock, back, failed>>
    PROVE  CacheInv'
<1>1. Caches(t)
  OBVIOUS
<1> DEFINE f == look[t]
           s == level[d]
           there == f.key \in Keys(s)
           e == EntryOf(s, f.key)
           v == IF there THEN <<e>> ELSE << >>
           job == [f EXCEPT !.todo = rest, !.at = IF there THEN d ELSE "none", !.raced = FALSE,
                            !.pc = IF there THEN "check" ELSE "look", !.doomed = v]
<1>2. /\ f.scans = << >> /\ look' = [look EXCEPT ![t] = job]
      /\ UNCHANGED <<sharedVars, level, users, access, clock, back, failed>>
  BY DEF Asked
<1>3. f \in Looks /\ PlaceOK(f) /\ AllTimeOK(f.doomed, clock + back, back) /\ ~f.put
  BY <1>1, HereIs DEF LookOK
<1>4. s \in Seq(Entry) /\ Len(s) \in Nat /\ KeysOK(s) /\ AllTimeOK(s, clock + back, back)
  BY <1>1, <1>3, HereIs
<1>5. there => \E i \in 1..Len(s) : e = s[i]
  <2> SUFFICES ASSUME there PROVE \E i \in 1..Len(s) : e = s[i]
    OBVIOUS
  <2> DEFINE p == CHOOSE i \in DOMAIN s : s[i].key = f.key
  <2>1. \E i \in DOMAIN s : s[i].key = f.key
    BY DEF Keys
  <2>2. p \in DOMAIN s
    BY <2>1
  <2>3. e = s[p]
    BY DEF EntryOf
  <2>4. DOMAIN s = 1..Len(s)
    BY <1>4
  <2> QED BY <2>2, <2>3, <2>4
<1>6. /\ v \in Seq(Entry) /\ AllTimeOK(v, clock + back, back) /\ KeysOK(v)
      /\ there => Len(v) = 1 /\ v[1] = e
      /\ ~there => v = << >>
  <2>1. CASE there
    <3>1. e \in Entry /\ TimeOK(e, clock + back, back)
      BY <1>4, <1>5, <2>1 DEF AllTimeOK
    <3> HIDE DEF e, there
    <3>2. v = <<e>> /\ <<e>> \in Seq(Entry) /\ Len(<<e>>) = 1 /\ <<e>>[1] = e
      BY <2>1, <3>1
    <3> QED BY <2>1, <3>1, <3>2 DEF AllTimeOK, KeysOK
  <2>2. CASE ~there
    BY <2>2 DEF AllTimeOK, KeysOK
  <2> QED BY <2>1, <2>2
<1> HIDE DEF v, e, there, s
<1>7. /\ job \in Looks /\ job.pc = (IF there THEN "check" ELSE "look") /\ job.scans = f.scans
      /\ job.at = (IF there THEN d ELSE "none") /\ job.put = f.put /\ job.doomed = v /\ job.raced = FALSE
      /\ job.todo = rest
  BY <1>3, <1>6 DEF Looks
<1>8. LookOK(job, level, users, clock, back)
  <2>1. CASE there
    <3>1. PlaceOK(job)
      BY <1>3, <1>6, <1>7, <2>1 DEF PlaceOK
    <3>2. \A i \in 1..Len(v) : \E j \in 1..Len(s) : s[j] = v[i]
      <4>3. Len(v) = 1 /\ v[1] = e
        BY <1>6, <2>1
      <4>0. 1..Len(v) = {1}
        BY <4>3
      <4>1. \A i \in 1..Len(v) : v[i] = e
        BY <4>3, <4>0
      <4> QED BY <1>5, <2>1, <4>1
    <3>3. InHand(job, level[job.at])
      BY <1>7, <2>1, <3>2 DEF InHand, s
    <3> QED BY <1>7, <2>1, <3>1, <3>3 DEF LookOK, Purges
  <2>2. CASE ~there
    <3>1. PlaceOK(job)
      BY <1>3, <1>6, <1>7, <2>2 DEF PlaceOK
    <3> QED BY <1>7, <2>2, <3>1 DEF LookOK
  <2> QED BY <2>1, <2>2
<1>9. Scanning(job, users)
  BY <1>2, <1>7 DEF Scanning
<1>10. \A x \in Timed : ~Stores(f, x)
  BY <1>3 DEF Stores
<1> HIDE DEF f, job
<1> QED BY <1>1, <1>2, <1>6, <1>7, <1>8, <1>9, <1>10, JobKeeps DEF f

\* A level is asked, or the key for the dictionary of the user is hashed.
LEMMA LookKeeps ==
    ASSUME CacheInv, NEW t \in Threads, Look(t) \/ LookUser(t) \/ FindUser(t)
    PROVE  CacheInv'
<1>1. Caches(t)
  BY DEF Look, LookUser, FindUser, InCache, Caches
<1> DEFINE f == look[t]
<1>2. f \in Looks /\ PlaceOK(f) /\ AllTimeOK(f.doomed, clock + back, back)
  BY <1>1, HereIs DEF LookOK
<1>3. f.todo # << >> => Head(f.todo) \in Dicts /\ Tail(f.todo) \in Seq(Dicts)
  BY <1>1, HereIs, TailScans
<1>4. f.pc \in {"look", "find"} => ~f.put \/ f.todo = << >>
  BY <1>2 DEF PlaceOK
<1>5. CASE Look(t)
  <2>1. /\ f.todo # << >> /\ f.scans = << >> /\ ~f.put /\ Asked(t, Head(f.todo), Tail(f.todo))
        /\ UNCHANGED <<sharedVars, level, users, access, clock, back, failed>>
    BY <1>4, <1>5 DEF Look, InCache
  <2> QED BY <1>1, <1>3, <2>1, AskedKeeps
<1>6. CASE FindUser(t)
  <2>1. /\ f.pc = "find" /\ Asked(t, f.at, f.todo)
        /\ UNCHANGED <<sharedVars, level, users, access, clock, back, failed>>
    BY <1>6 DEF FindUser, InCache
  <2>2. f.at \in Dicts /\ f.scans = << >> /\ ~f.put
    BY <1>2, <2>1, NamesApart DEF PlaceOK
  <2>3. f.todo \in Seq(Dicts)
    BY <1>1, HereIs
  <2> QED BY <1>1, <2>1, <2>2, <2>3, AskedKeeps
<1>7. CASE LookUser(t)
  <2> DEFINE job == [f EXCEPT !.pc = "find", !.at = Head(f.todo), !.todo = Tail(f.todo)]
  <2>1. /\ f.pc = "look" /\ f.todo # << >> /\ f.scans = << >> /\ ~f.put /\ Head(f.todo) \in users
        /\ look' = [look EXCEPT ![t] = job]
        /\ UNCHANGED <<sharedVars, level, users, access, clock, back, failed>>
    BY <1>4, <1>7 DEF LookUser, InCache
  <2>2. Head(f.todo) \in Users
    BY <2>1 DEF CacheInv, CacheTyped
  <2>3. /\ job \in Looks /\ job.pc = "find" /\ job.at = Head(f.todo) /\ job.scans = << >>
        /\ job.put = f.put /\ job.doomed = f.doomed /\ job.raced = f.raced
    BY <1>2, <1>3, <2>1 DEF Looks
  <2>4. LookOK(job, level, users, clock, back)
    <3>1. PlaceOK(job)
      BY <1>2, <2>1, <2>2, <2>3 DEF PlaceOK
    <3> QED BY <2>1, <2>3, <3>1 DEF LookOK, InHand, Purges
  <2>5. Scanning(job, users)
    BY <2>3 DEF Scanning
  <2>6. \A x \in Timed : ~Stores(f, x)
    BY <2>1 DEF Stores
  <2> HIDE DEF job
  <2>7. AllTimeOK(job.doomed, clock + back, back)
    BY <1>2, <2>3
  <2> QED BY <1>1, <2>1, <2>3, <2>4, <2>5, <2>6, <2>7, JobKeeps
<1> QED BY <1>5, <1>6, <1>7

\* An entry that is not served is expired.
LEMMA StaleKeeps ==
    ASSUME CacheInv, NEW t \in Threads, Stale(t)
    PROVE  CacheInv'
<1>1. Caches(t)
  BY DEF Stale, InCache, Caches
<1> DEFINE f == look[t]
           job == [f EXCEPT !.pc = "drop"]
<1>2. /\ f.pc = "check" /\ Expired(Head(f.doomed)) /\ look' = [look EXCEPT ![t] = job]
      /\ UNCHANGED <<sharedVars, level, users, access, clock, back, failed>>
  BY <1>1, HereIs DEF Stale, InCache
<1>3. /\ f \in Looks /\ LookOK(f, level, users, clock, back) /\ PlaceOK(f)
      /\ f.at \in Dicts /\ Len(f.doomed) = 1 /\ ~f.put /\ f.doomed \in Seq(Entry)
      /\ AllTimeOK(f.doomed, clock + back, back)
  BY <1>1, <1>2, HereIs DEF LookOK, PlaceOK
<1>4. /\ job \in Looks /\ job.pc = "drop" /\ job.at = f.at /\ job.scans = f.scans /\ job.todo = f.todo
      /\ job.put = f.put /\ job.doomed = f.doomed /\ job.raced = f.raced
  BY <1>3 DEF Looks
<1>5. LookOK(job, level, users, clock, back)
  <2>1. PlaceOK(job)
    BY <1>3, <1>4 DEF PlaceOK
  <2>2. AllExpired(f.doomed, clock)
    <3>1. f.doomed[1] = Head(f.doomed) /\ 1..Len(f.doomed) = {1}
      BY <1>3
    <3> QED BY <1>2, <3>1 DEF AllExpired, Expired
  <2>3. ~f.raced /\ f.at # "none" => InHand(job, level[job.at])
    BY <1>2, <1>3, <1>4 DEF LookOK, InHand
  <2> QED BY <1>3, <1>4, <2>1, <2>2, <2>3 DEF LookOK
<1>6. Scanning(f, users) => Scanning(job, users)
  BY <1>4 DEF Scanning
<1>7. \A d \in Timed : ~Stores(f, d)
  BY <1>3 DEF Stores
<1> HIDE DEF f, job
<1> QED BY <1>1, <1>2, <1>3, <1>4, <1>5, <1>6, <1>7, JobKeeps DEF f

\* What Now does to the other threads.
LEMMA NowIs ==
    ASSUME look \in [Threads -> Looks], NEW t \in Threads, NEW job \in Looks, NEW D,
           look' = Now(t, job, D)
    PROVE  /\ look' \in [Threads -> Looks] /\ look'[t] = job
           /\ \A u \in Threads \ {t} :
                \/ look'[u] = look[u] /\ look[u].at \notin D
                \/ look'[u] = [look[u] EXCEPT !.raced = TRUE] /\ look[u].at \in D
<1>1. ASSUME NEW u \in Threads PROVE [look[u] EXCEPT !.raced = TRUE] \in Looks
  BY DEF Looks
<1>2. ASSUME NEW u \in Threads
      PROVE  look'[u] = IF u = t THEN job
                        ELSE IF look[u].at \in D THEN [look[u] EXCEPT !.raced = TRUE] ELSE look[u]
  BY DEF Now
<1>3. look' \in [Threads -> Looks]
  <2>1. \A u \in Threads : look'[u] \in Looks
    BY <1>1, <1>2
  <2>2. look' = [u \in Threads |-> look'[u]]
    BY DEF Now
  <2> QED BY <2>1, <2>2
<1> QED BY <1>2, <1>3

\* An entry that is stored may bring its dictionary above the limit, by one.
LEMMA StoreKeeps ==
    ASSUME CacheInv, NEW t \in Threads, NEW d \in Timed, NEW q \in Queries, NEW ttl \in Ttls,
           StoreIn(t, d, q, ttl), part = "cache", part' = part, adapter' = adapter,
           busy' = busy \cup {t}, adapter = "fastapi" => busy \subseteq {t}, ~look[t].put
    PROVE  CacheInv'
<1> DEFINE e == NewEntry(q, ttl)
           job == [NoLook EXCEPT !.pc = "evict", !.at = d, !.put = TRUE]
<1>1. /\ look' = Now(t, job, {d}) /\ level' = [level EXCEPT ![d] = Stored(level[d], e)]
      /\ UNCHANGED <<users, access, clock, back, failed>>
  BY DEF StoreIn
<1>2. CacheTyped /\ level \in [Dicts -> Seq(Entry)] /\ look \in [Threads -> Looks] /\ failed \in Nat
  BY DEF CacheInv, CacheTyped
<1>3. /\ d \in Dicts /\ level[d] \in Seq(Entry) /\ Len(level[d]) \in Nat /\ KeysOK(level[d])
      /\ AllTimeOK(level[d], clock + back, back)
  BY <1>2, NamesApart DEF CacheInv, TimesOK
<1>4. e \in Entry /\ TimeOK(e, clock + back, back)
  <2>1. clock \in Int /\ back \in Nat /\ clock + back \in Nat
    BY <1>2, CacheAssumption DEF CacheTyped
  <2> QED BY <2>1 DEF NewEntry, Entry, TimeOK
<1> HIDE DEF e
<1>5. /\ Stored(level[d], e) \in Seq(Entry) /\ KeysOK(Stored(level[d], e))
      /\ Len(Stored(level[d], e)) <= Len(level[d]) + 1 /\ Len(Stored(level[d], e)) \in Nat
      /\ AllTimeOK(Stored(level[d], e), clock + back, back)
  <2>1. /\ Stored(level[d], e) \in Seq(Entry) /\ KeysOK(Stored(level[d], e))
        /\ Len(Stored(level[d], e)) <= Len(level[d]) + 1
        /\ \A i \in 1..Len(Stored(level[d], e)) :
             Stored(level[d], e)[i] = e \/ \E j \in 1..Len(level[d]) : Stored(level[d], e)[i] = level[d][j]
    BY <1>3, <1>4, StoredIs
  <2>2. AllTimeOK(Stored(level[d], e), clock + back, back)
    BY <1>3, <1>4, <2>1 DEF AllTimeOK
  <2>3. Len(Stored(level[d], e)) \in Nat
    BY <2>1, LenProperties
  <2> QED BY <2>1, <2>2, <2>3
<1>6. job \in Looks
  <2>1. << >> \in Seq(Dicts) /\ << >> \in Seq(Timed \cup {"users"}) /\ << >> \in Seq(Entry)
    OBVIOUS
  <2> QED BY <1>3, <2>1 DEF NoLook, Looks
<1>7. /\ job.pc = "evict" /\ job.at = d /\ job.put /\ job.doomed = << >> /\ job.scans = << >>
      /\ job.todo = << >> /\ ~job.raced
  BY DEF NoLook
<1> HIDE DEF job
<1>8. /\ look' \in [Threads -> Looks] /\ look'[t] = job
      /\ \A u \in Threads \ {t} :
           \/ look'[u] = look[u] /\ look[u].at \notin {d}
           \/ look'[u] = [look[u] EXCEPT !.raced = TRUE] /\ look[u].at \in {d}
  BY <1>1, <1>2, <1>6, NowIs
<1>9. Changes(t, job, {d})
  <2>1. level'[d] = Stored(level[d], e) /\ \A c \in Dicts \ {d} : level'[c] = level[c]
    BY <1>1, <1>2, <1>3
  <2> QED BY <1>5, <1>8, <2>1 DEF Changes
<1>10. CacheTyped'
  <2>1. level' \in [Dicts -> Seq(Entry)]
    BY <1>1, <1>2, <1>5
  <2> QED BY <1>1, <1>2, <1>8, <2>1 DEF CacheTyped
<1>11. LookOK(job, level', users', clock, back)
  <2>1. PlaceOK(job)
    BY <1>7 DEF PlaceOK, KeysOK
  <2>2. InHand(job, level'[job.at])
    BY <1>7 DEF InHand
  <2> QED BY <1>7, <2>1, <2>2 DEF LookOK, Purges
<1>12. AllTimeOK(job.doomed, clock + back, back)
  BY <1>7 DEF AllTimeOK
<1>13. ASSUME NEW c \in Timed
       PROVE  Len(level'[c]) + One(Stores(look[t], c))
                    <= Len(level[c]) + One(Stores(job, c)) + (failed' - failed)
  <2>2. One(Stores(look[t], c)) = 0
    BY DEF One, Stores
  <2>3. CASE c = d
    <3>1. One(Stores(job, c)) = 1
      BY <1>7, <2>3 DEF One, Stores
    <3>2. level'[c] = Stored(level[d], e)
      BY <1>1, <1>2, <1>3, <2>3
    <3> QED BY <1>1, <1>2, <1>3, <1>5, <2>2, <2>3, <3>1, <3>2
  <2>4. CASE c # d
    <3>1. One(Stores(job, c)) = 0
      BY <1>7, <2>4 DEF One, Stores
    <3>2. level'[c] = level[c] /\ level[c] \in Seq(Entry)
      BY <1>1, <1>2, <2>4, NamesApart
    <3>3. Len(level[c]) \in Nat
      BY <3>2
    <3> QED BY <1>1, <1>2, <2>2, <3>1, <3>2, <3>3
  <2> QED BY <2>3, <2>4
<1>14. Scanning(job, users')
  BY <1>7 DEF Scanning
<1>15. /\ failed <= failed' /\ users \ {d} \subseteq users' /\ {d} \in SUBSET Dicts /\ t \in busy'
       /\ clock' = clock /\ back' = back /\ failed' = failed
  BY <1>1, <1>2, <1>3
<1> QED BY <1>1, <1>6, <1>7, <1>9, <1>10, <1>11, <1>12, <1>13, <1>14, <1>15, StepKeeps

\* set_level_1 and set_scenario_cache, and set_level_2 in two steps.
LEMMA PutKeeps ==
    ASSUME CacheInv, NEW t \in Threads, NEW q \in Queries, NEW ttl \in Ttls,
           \E d \in {"level_1", "scenario"} : Put(t, d, q, ttl)
    PROVE  CacheInv'
<1>1. PICK d \in {"level_1", "scenario"} : Put(t, d, q, ttl)
  OBVIOUS
<1>2. /\ part = "cache" /\ part' = part /\ adapter' = adapter /\ busy' = busy \cup {t}
      /\ t \notin busy /\ (adapter = "fastapi" => busy = {}) /\ StoreIn(t, d, q, ttl)
  BY <1>1 DEF Put, Enter, MayCall, NeverSuspend
<1>3. look[t] = NoLook
  BY <1>2 DEF CacheInv, Caches
<1>4. ~look[t].put /\ d \in Timed
  BY <1>3, NamesApart DEF NoLook
<1> QED BY <1>2, <1>4, StoreKeeps

LEMMA PutUserKeeps ==
    ASSUME CacheInv, NEW t \in Threads, NEW u \in Users, NEW q \in Queries, PutUser(t, u, q)
    PROVE  CacheInv'
<1> DEFINE job == [NoLook EXCEPT !.pc = "store", !.key = q, !.at = u]
<1>1. /\ part = "cache" /\ part' = part /\ adapter' = adapter /\ busy' = busy \cup {t}
      /\ t \notin busy /\ (adapter = "fastapi" => busy = {})
      /\ look' = [look EXCEPT ![t] = job] /\ users' = users \cup {u}
      /\ UNCHANGED <<level, access, clock, back, failed>>
  BY DEF PutUser, Begin, Enter, MayCall, NeverSuspend
<1>2. /\ CacheTyped /\ level \in [Dicts -> Seq(Entry)] /\ look \in [Threads -> Looks]
      /\ failed \in Nat /\ look[t] = NoLook
  BY <1>1 DEF CacheInv, CacheTyped, Caches
<1>3. job \in Looks
  <2>1. << >> \in Seq(Dicts) /\ << >> \in Seq(Timed \cup {"users"}) /\ << >> \in Seq(Entry)
    OBVIOUS
  <2>2. u \in Dicts
    BY NamesApart
  <2> QED BY <2>1, <2>2 DEF NoLook, Looks
<1>4. /\ job.pc = "store" /\ job.at = u /\ job.key = q /\ ~job.put /\ job.doomed = << >>
      /\ job.scans = << >> /\ ~job.raced
  BY DEF NoLook
<1> HIDE DEF job
<1>5. Changes(t, job, {})
  BY <1>1, <1>2 DEF Changes
<1>6. CacheTyped'
  <2>1. look' \in [Threads -> Looks]
    BY <1>1, <1>2, <1>3
  <2>2. users' \subseteq Users /\ IsFiniteSet(users')
    BY <1>1, <1>2, FS_AddElement DEF CacheTyped
  <2> QED BY <1>1, <1>2, <2>1, <2>2 DEF CacheTyped
<1>7. LookOK(job, level', users', clock, back)
  <2>1. PlaceOK(job)
    BY <1>4 DEF PlaceOK, KeysOK
  <2> QED BY <1>1, <1>4, <2>1 DEF LookOK, InHand, Purges
<1>8. AllTimeOK(job.doomed, clock + back, back) /\ Scanning(job, users')
  BY <1>4 DEF AllTimeOK, Scanning
<1>9. ASSUME NEW d \in Timed
      PROVE  Len(level'[d]) + One(Stores(look[t], d))
                    <= Len(level[d]) + One(Stores(job, d)) + (failed' - failed)
  <2>1. Len(level[d]) \in Nat
    BY <1>2, NamesApart
  <2>2. One(Stores(job, d)) = 0 /\ One(Stores(look[t], d)) = 0
    BY <1>2, <1>4 DEF One, Stores, NoLook
  <2> QED BY <1>1, <1>2, <2>1, <2>2
<1>10. /\ failed <= failed' /\ users \ {} \subseteq users' /\ {} \in SUBSET Dicts /\ t \in busy'
       /\ clock' = clock /\ back' = back /\ failed' = failed
  BY <1>1, <1>2
<1> QED BY <1>1, <1>3, <1>4, <1>5, <1>6, <1>7, <1>8, <1>9, <1>10, StepKeeps

LEMMA StoreUserKeeps ==
    ASSUME CacheInv, NEW t \in Threads, NEW ttl \in Ttls, StoreUser(t, ttl)
    PROVE  CacheInv'
<1>1. /\ Caches(t) /\ look[t].pc = "store" /\ UNCHANGED sharedVars
      /\ StoreIn(t, look[t].at, look[t].key, ttl)
  BY DEF StoreUser, InCache, Caches
<1>2. PlaceOK(look[t])
  BY <1>1, HereIs DEF LookOK
<1>3. look[t].at \in Timed /\ look[t].key \in Queries /\ ~look[t].put
  BY <1>1, <1>2, NamesApart DEF PlaceOK
<1>4. adapter = "fastapi" => busy \subseteq {t}
  BY <1>1 DEF CacheInv, LoopOK, Caches
<1>5. part = "cache" /\ part' = part /\ adapter' = adapter /\ busy' = busy \cup {t}
  BY <1>1 DEF Caches, sharedVars
<1> QED BY <1>1, <1>3, <1>4, <1>5, StoreKeeps

\* Level 3 has no limit and no times.
LEMMA SetLevel3Keeps ==
    ASSUME CacheInv, NEW t \in Threads, NEW q \in Queries, SetLevel3(t, q)
    PROVE  CacheInv'
<1> DEFINE e == NewEntry(q, Never)
           d == "level_3"
<1>1. /\ part = "cache" /\ part' = part /\ adapter' = adapter /\ busy' = busy \ {t}
      /\ t \notin busy /\ t \notin busy' /\ (adapter = "fastapi" => busy = {})
      /\ look' = Now(t, look[t], {d}) /\ level' = [level EXCEPT ![d] = Stored(level[d], e)]
      /\ UNCHANGED <<users, access, clock, back, failed>>
  BY DEF SetLevel3, AtOnce, MayCall, NeverSuspend
<1>2. CacheTyped /\ level \in [Dicts -> Seq(Entry)] /\ look \in [Threads -> Looks] /\ failed \in Nat
      /\ look[t] = NoLook
  BY <1>1 DEF CacheInv, CacheTyped, Caches
<1>3. /\ d \in Dicts /\ d \notin Timed /\ level[d] \in Seq(Entry) /\ KeysOK(level[d])
      /\ AllTimeOK(level[d], clock + back, back)
  BY <1>2, NamesApart DEF CacheInv, TimesOK, Timed
<1>4. e \in Entry /\ TimeOK(e, clock + back, back)
  <2>1. clock \in Int /\ back \in Nat /\ clock + back \in Nat
    BY <1>2, CacheAssumption DEF CacheTyped
  <2> QED BY <2>1 DEF NewEntry, Entry, TimeOK
<1> HIDE DEF e
<1>5. /\ Stored(level[d], e) \in Seq(Entry) /\ KeysOK(Stored(level[d], e))
      /\ AllTimeOK(Stored(level[d], e), clock + back, back)
  <2>1. /\ Stored(level[d], e) \in Seq(Entry) /\ KeysOK(Stored(level[d], e))
        /\ \A i \in 1..Len(Stored(level[d], e)) :
             Stored(level[d], e)[i] = e \/ \E j \in 1..Len(level[d]) : Stored(level[d], e)[i] = level[d][j]
    BY <1>3, <1>4, StoredIs
  <2>2. AllTimeOK(Stored(level[d], e), clock + back, back)
    BY <1>3, <1>4, <2>1 DEF AllTimeOK
  <2> QED BY <2>1, <2>2
<1>8. /\ look' \in [Threads -> Looks] /\ look'[t] = NoLook
      /\ \A u \in Threads \ {t} :
           \/ look'[u] = look[u] /\ look[u].at \notin {d}
           \/ look'[u] = [look[u] EXCEPT !.raced = TRUE] /\ look[u].at \in {d}
  BY <1>1, <1>2, NamesApart, NowIs
<1>9. Changes(t, NoLook, {d})
  <2>1. level'[d] = Stored(level[d], e) /\ \A c \in Dicts \ {d} : level'[c] = level[c]
    BY <1>1, <1>2, <1>3
  <2> QED BY <1>5, <1>8, <2>1 DEF Changes
<1>10. CacheTyped'
  <2>1. level' \in [Dicts -> Seq(Entry)]
    BY <1>1, <1>2, <1>5
  <2> QED BY <1>1, <1>2, <1>8, <2>1 DEF CacheTyped
<1>12. AllTimeOK(NoLook.doomed, clock + back, back)
  BY DEF AllTimeOK, NoLook
<1>13. ASSUME NEW c \in Timed
       PROVE  Len(level'[c]) + One(Stores(look[t], c))
                    <= Len(level[c]) + One(Stores(NoLook, c)) + (failed' - failed)
  <2>1. level'[c] = level[c] /\ level[c] \in Seq(Entry)
    BY <1>1, <1>2, <1>3, NamesApart
  <2>2. One(Stores(NoLook, c)) = 0
    BY DEF One, Stores, NoLook
  <2>3. Len(level[c]) \in Nat
    BY <2>1
  <2> QED BY <1>1, <1>2, <2>1, <2>2, <2>3
<1>15. /\ failed <= failed' /\ users \ {d} \subseteq users' /\ {d} \in SUBSET Dicts
       /\ clock' = clock /\ back' = back /\ failed' = failed /\ NoLook \in Looks
  BY <1>1, <1>2, <1>3, NamesApart
<1> QED BY <1>1, <1>9, <1>10, <1>12, <1>13, <1>15, StepKeeps

\* What WithoutDicts does to the threads.
LEMMA WithoutDictsIs ==
    ASSUME look \in [Threads -> Looks], NEW D, NEW u \in Threads
    PROVE  /\ WithoutDicts(D)[u] \in Looks /\ DOMAIN WithoutDicts(D) = Threads
           /\ \/ WithoutDicts(D)[u] = look[u] /\ look[u].at \notin D
              \/ WithoutDicts(D)[u] = [look[u] EXCEPT !.raced = TRUE] /\ look[u].at \in D
              \/ WithoutDicts(D)[u] = [NoLook EXCEPT !.pc = "drop"] /\ look[u].at \in D
<1>1. [look[u] EXCEPT !.raced = TRUE] \in Looks /\ [NoLook EXCEPT !.pc = "drop"] \in Looks
  BY NamesApart DEF Looks
<1>2. WithoutDicts(D)[u] = IF look[u].put /\ look[u].at \in D \cap Users
                           THEN [NoLook EXCEPT !.pc = "drop"]
                           ELSE IF look[u].at \in D THEN [look[u] EXCEPT !.raced = TRUE]
                           ELSE look[u]
  BY DEF WithoutDicts
<1>3. DOMAIN WithoutDicts(D) = Threads
  BY DEF WithoutDicts
<1> QED BY <1>1, <1>2, <1>3

\* What is cleared is below its limit, and whoever was evicting from it stops.
LEMMA ClearKeeps ==
    ASSUME CacheInv, NEW t \in Threads, NEW D \in SUBSET Dicts, Clear(t, D)
    PROVE  CacheInv'
<1>1. /\ part = "cache" /\ part' = part /\ adapter' = adapter /\ busy' = busy \ {t}
      /\ t \notin busy /\ t \notin busy' /\ (adapter = "fastapi" => busy = {})
      /\ look' = WithoutDicts(D) /\ level' = [d \in Dicts |-> IF d \in D THEN << >> ELSE level[d]]
      /\ users' = users \ D
      /\ UNCHANGED <<access, clock, back, failed>>
  BY DEF Clear, AtOnce, MayCall, NeverSuspend
<1>2. CacheTyped /\ level \in [Dicts -> Seq(Entry)] /\ look \in [Threads -> Looks] /\ failed \in Nat
      /\ look[t] = NoLook
  BY <1>1 DEF CacheInv, CacheTyped, Caches
<1>3. /\ \A d \in D : level'[d] = << >>
      /\ \A d \in Dicts \ D : level'[d] = level[d]
      /\ level' \in [Dicts -> Seq(Entry)]
  BY <1>1, <1>2
<1>4. look'[t] = NoLook
  <2>1. look[t].at \notin D
    BY <1>2, NamesApart DEF NoLook
  <2> QED BY <1>1, <1>2, <2>1, WithoutDictsIs
<1>5. /\ look' \in [Threads -> Looks]
      /\ \A u \in Threads \ {t} :
           \/ look'[u] = look[u] /\ look[u].at \notin D
           \/ look'[u] = [look[u] EXCEPT !.raced = TRUE] /\ look[u].at \in D
           \/ look'[u] = [NoLook EXCEPT !.pc = "drop"] /\ look[u].at \in D
  <2>1. \A u \in Threads : look'[u] \in Looks
    BY <1>1, <1>2, WithoutDictsIs
  <2>2. look' = [u \in Threads |-> look'[u]]
    BY <1>1 DEF WithoutDicts
  <2> QED BY <1>1, <1>2, <2>1, <2>2, WithoutDictsIs
<1>9. Changes(t, NoLook, D)
  <2>1. \A d \in D : KeysOK(level'[d]) /\ AllTimeOK(level'[d], clock + back, back)
    BY <1>3 DEF KeysOK, AllTimeOK
  <2> QED BY <1>3, <1>4, <1>5, <2>1 DEF Changes
<1>10. CacheTyped'
  <2>1. users' \subseteq Users /\ IsFiniteSet(users')
    BY <1>1, <1>2, FS_Subset DEF CacheTyped
  <2> QED BY <1>1, <1>2, <1>3, <1>5, <2>1 DEF CacheTyped
<1>12. AllTimeOK(NoLook.doomed, clock + back, back)
  BY DEF AllTimeOK, NoLook
<1>13. ASSUME NEW c \in Timed
       PROVE  Len(level'[c]) + One(Stores(look[t], c))
                    <= Len(level[c]) + One(Stores(NoLook, c)) + (failed' - failed)
  <2>1. level[c] \in Seq(Entry) /\ level'[c] \in {level[c], << >>}
    BY <1>2, <1>3, NamesApart
  <2>2. One(Stores(NoLook, c)) = 0
    BY DEF One, Stores, NoLook
  <2>3. Len(level[c]) \in Nat /\ Len(level'[c]) <= Len(level[c]) /\ Len(level'[c]) \in Nat
    BY <2>1
  <2> QED BY <1>1, <1>2, <2>2, <2>3
<1>15. /\ failed <= failed' /\ users \ D \subseteq users'
       /\ clock' = clock /\ back' = back /\ failed' = failed /\ NoLook \in Looks
  BY <1>1, <1>2, NamesApart
<1> QED BY <1>1, <1>9, <1>10, <1>12, <1>13, <1>15, StepKeeps

\* Only an empty dictionary is taken away, unless another thread was in it.
LEMMA UnlistKeeps ==
    ASSUME CacheInv, NEW t \in Threads, Unlist(t)
    PROVE  CacheInv'
<1>1. Caches(t)
  BY DEF Unlist, InCache, Caches
<1> DEFINE f == look[t]
           d == f.at
           job == [f EXCEPT !.pc = "look", !.at = "none", !.raced = FALSE]
<1>2. /\ f.pc = "unlist" /\ d \in users
      /\ users' = users \ {d} /\ level' = [level EXCEPT ![d] = << >>]
      /\ look' = [WithoutDicts({d}) EXCEPT ![t] = job]
      /\ part = "cache" /\ part' = part /\ adapter' = adapter /\ busy' = busy \cup {t} /\ t \in busy'
      /\ UNCHANGED <<access, clock, back, failed>>
  BY <1>1 DEF Unlist, InCache, sharedVars, Caches
<1>3. /\ CacheTyped /\ level \in [Dicts -> Seq(Entry)] /\ look \in [Threads -> Looks] /\ failed \in Nat
      /\ f \in Looks /\ PlaceOK(f) /\ d \in Users /\ d \in Dicts /\ ~f.put
      /\ AllTimeOK(f.doomed, clock + back, back)
  BY <1>1, <1>2, HereIs, NamesApart DEF CacheInv, CacheTyped, LookOK, PlaceOK
<1>4. /\ job \in Looks /\ job.pc = "look" /\ job.at = "none" /\ job.scans = f.scans
      /\ job.todo = f.todo /\ job.put = f.put /\ job.doomed = f.doomed /\ job.raced = FALSE
  BY <1>3 DEF Looks
<1> HIDE DEF job
<1>5. /\ look' \in [Threads -> Looks] /\ look'[t] = job
      /\ \A u \in Threads \ {t} :
           \/ look'[u] = look[u] /\ look[u].at \notin {d}
           \/ look'[u] = [look[u] EXCEPT !.raced = TRUE] /\ look[u].at \in {d}
           \/ look'[u] = [NoLook EXCEPT !.pc = "drop"] /\ look[u].at \in {d}
  <2>1. \A u \in Threads : WithoutDicts({d})[u] \in Looks
    BY <1>3, WithoutDictsIs
  <2>2. DOMAIN WithoutDicts({d}) = Threads
    BY DEF WithoutDicts
  <2>3. /\ look'[t] = job /\ DOMAIN look' = Threads
        /\ \A u \in Threads \ {t} : look'[u] = WithoutDicts({d})[u]
    BY <1>2, <2>2
  <2>4. look' = [u \in Threads |-> look'[u]]
    BY <1>2 DEF WithoutDicts
  <2>5. look' \in [Threads -> Looks]
    <3>1. \A u \in Threads : look'[u] \in Looks
      BY <1>4, <2>1, <2>3
    <3> QED BY <2>4, <3>1
  <2>6. ASSUME NEW u \in Threads \ {t}
        PROVE  \/ look'[u] = look[u] /\ look[u].at \notin {d}
               \/ look'[u] = [look[u] EXCEPT !.raced = TRUE] /\ look[u].at \in {d}
               \/ look'[u] = [NoLook EXCEPT !.pc = "drop"] /\ look[u].at \in {d}
    <3>1. look'[u] = WithoutDicts({d})[u] /\ u \in Threads
      BY <2>3
    <3> HIDE DEF d
    <3> QED BY <1>3, <3>1, WithoutDictsIs
  <2> QED BY <2>3, <2>5, <2>6
<1>6. level'[d] = << >> /\ level' \in [Dicts -> Seq(Entry)] /\ \A c \in Dicts \ {d} : level'[c] = level[c]
  BY <1>2, <1>3
<1>9. Changes(t, job, {d})
  <2>1. KeysOK(level'[d]) /\ AllTimeOK(level'[d], clock + back, back)
    BY <1>6 DEF KeysOK, AllTimeOK
  <2> QED BY <1>5, <1>6, <2>1 DEF Changes
<1>10. CacheTyped'
  <2>1. users' \subseteq Users /\ IsFiniteSet(users')
    BY <1>2, <1>3, FS_Subset DEF CacheTyped
  <2> QED BY <1>2, <1>3, <1>5, <1>6, <2>1 DEF CacheTyped
<1>11. LookOK(job, level', users', clock, back)
  BY <1>3, <1>4 DEF LookOK, PlaceOK
<1>12. adapter = "fastapi" => busy \subseteq {t} /\ Scanning(f, users)
  BY <1>1 DEF CacheInv, LoopOK, Caches
<1>13. ASSUME NEW c \in Timed
       PROVE  Len(level'[c]) + One(Stores(f, c))
                    <= Len(level[c]) + One(Stores(job, c)) + (failed' - failed)
  <2>1. level[c] \in Seq(Entry) /\ level'[c] \in {level[c], << >>}
    BY <1>3, <1>6, NamesApart
  <2>2. One(Stores(f, c)) = 0 /\ One(Stores(job, c)) = 0
    BY <1>3, <1>4 DEF One, Stores
  <2>3. Len(level[c]) \in Nat /\ Len(level'[c]) <= Len(level[c]) /\ Len(level'[c]) \in Nat
    BY <2>1
  <2> QED BY <1>2, <1>3, <2>2, <2>3
<1>14. Scanning(f, users) => Scanning(job, users')
  <2>1. \A i : f.scans[i] \in Users => f.scans[i] # "none"
    BY NamesApart
  <2> QED BY <1>2, <1>4, <2>1 DEF Scanning
<1>15. /\ failed <= failed' /\ users \ {d} \subseteq users' /\ {d} \in SUBSET Dicts
       /\ clock' = clock /\ back' = back /\ failed' = failed
  BY <1>2, <1>3
<1>16. AllTimeOK(job.doomed, clock + back, back)
  BY <1>3, <1>4
<1> HIDE DEF d
<1> QED BY <1>2, <1>4, <1>9, <1>10, <1>11, <1>12, <1>13, <1>14, <1>15, <1>16, StepKeeps

\* A deletion brings the dictionary down by one, and leaves the rest to be deleted in it.
LEMMA DropKeeps ==
    ASSUME CacheInv, NEW t \in Threads, Drop(t)
    PROVE  CacheInv'
<1>1. Caches(t)
  BY DEF Drop, InCache, Caches
<1> DEFINE f == look[t]
           d == f.at
           s == level[d]
           v == f.doomed
           q == Head(v).key
           w == WithoutKey(s, q)
           job == [f EXCEPT !.doomed = Tail(v)]
<1>2. /\ f.pc \in {"drop", "purge"} /\ v # << >> /\ q \in Keys(s)
      /\ level' = [level EXCEPT ![d] = w] /\ look' = Now(t, job, {d})
      /\ part = "cache" /\ part' = part /\ adapter' = adapter /\ busy' = busy \cup {t} /\ t \in busy'
      /\ UNCHANGED <<users, access, clock, back, failed>>
  BY <1>1, HereIs DEF Drop, InCache, sharedVars, Caches
<1>3. /\ CacheTyped /\ level \in [Dicts -> Seq(Entry)] /\ look \in [Threads -> Looks] /\ failed \in Nat
      /\ f \in Looks /\ LookOK(f, level, users, clock, back) /\ PlaceOK(f) /\ d \in Dicts
      /\ AllTimeOK(v, clock + back, back) /\ v \in Seq(Entry) /\ d # "none"
  BY <1>1, <1>2, HereIs, NamesApart DEF CacheInv, CacheTyped, LookOK, PlaceOK
<1>4. s \in Seq(Entry) /\ Len(s) \in Nat /\ KeysOK(s) /\ AllTimeOK(s, clock + back, back)
  BY <1>1, <1>3, HereIs
<1>5. /\ w \in Seq(Entry) /\ KeysOK(w) /\ Len(w) = Len(s) - 1
      /\ \A j \in 1..Len(w) : \E i \in 1..Len(s) : w[j] = s[i] /\ s[i].key # q
      /\ \A i \in 1..Len(s) : s[i].key # q => \E j \in 1..Len(w) : w[j] = s[i]
  BY <1>2, <1>4, WithoutKeyIs
<1>6. AllTimeOK(w, clock + back, back)
  BY <1>4, <1>5 DEF AllTimeOK
<1>7. /\ Tail(v) \in Seq(Entry) /\ Len(v) \in Nat /\ Len(v) >= 1 /\ Len(Tail(v)) = Len(v) - 1
      /\ v[1].key = q /\ \A i \in 1..Len(v) - 1 : Tail(v)[i] = v[i + 1]
  BY <1>2, <1>3, TailScans
<1> HIDE DEF q, w
<1>8. \A i \in 1..Len(Tail(v)) : i + 1 \in 1..Len(v) /\ Tail(v)[i] = v[i + 1] /\ i + 1 # 1
  BY <1>7
<1>9. \A i \in 1..Len(v) : i = 1 \/ \E j \in 1..Len(Tail(v)) : Tail(v)[j] = v[i]
  <2> SUFFICES ASSUME NEW i \in 1..Len(v), i # 1 PROVE \E j \in 1..Len(Tail(v)) : Tail(v)[j] = v[i]
    OBVIOUS
  <2>1. i - 1 \in 1..Len(Tail(v)) /\ i - 1 + 1 = i
    BY <1>7
  <2> QED BY <1>8, <2>1
<1>10. KeysOK(v)
  BY <1>3 DEF PlaceOK
<1>11. \A i \in 1..Len(Tail(v)) : Tail(v)[i].key # q
  <2>1. 1 \in 1..Len(v)
    BY <1>7
  <2> QED BY <1>7, <1>8, <1>10, <2>1 DEF KeysOK
<1>12. KeysOK(Tail(v)) /\ AllTimeOK(Tail(v), clock + back, back)
  <2>1. KeysOK(Tail(v))
    <3> SUFFICES ASSUME NEW i \in 1..Len(Tail(v)), NEW j \in 1..Len(Tail(v)),
                        Tail(v)[i].key = Tail(v)[j].key
                 PROVE  i = j
      BY DEF KeysOK
    <3>1. i + 1 = j + 1
      BY <1>8, <1>10 DEF KeysOK
    <3>2. i \in Int /\ j \in Int
      BY <1>7
    <3> QED BY <3>1, <3>2
  <2>2. AllTimeOK(Tail(v), clock + back, back)
    BY <1>3, <1>8 DEF AllTimeOK
  <2> QED BY <2>1, <2>2
<1>13. /\ job \in Looks /\ job.pc = f.pc /\ job.at = d /\ job.scans = f.scans /\ job.todo = f.todo
       /\ job.put = f.put /\ job.doomed = Tail(v) /\ job.raced = f.raced
       /\ f.at = d /\ job.key = f.key
  BY <1>3, <1>7 DEF Looks
<1> HIDE DEF job, d
<1>14. /\ look' \in [Threads -> Looks] /\ look'[t] = job
       /\ \A u \in Threads \ {t} :
            \/ look'[u] = look[u] /\ look[u].at \notin {d}
            \/ look'[u] = [look[u] EXCEPT !.raced = TRUE] /\ look[u].at \in {d}
  <2>1. look' = Now(t, job, {d}) /\ look \in [Threads -> Looks] /\ job \in Looks
    BY <1>2, <1>3, <1>13
  <2> HIDE DEF f
  <2> QED BY <2>1, NowIs
<1>15. level'[d] = w /\ level' \in [Dicts -> Seq(Entry)] /\ \A c \in Dicts \ {d} : level'[c] = level[c]
  BY <1>2, <1>3, <1>5
<1>16. Changes(t, job, {d})
  BY <1>5, <1>6, <1>14, <1>15 DEF Changes
<1>17. CacheTyped'
  BY <1>2, <1>3, <1>14, <1>15 DEF CacheTyped
<1>18. LookOK(job, level', users', clock, back)
  <2>1. PlaceOK(job)
    BY <1>2, <1>3, <1>12, <1>13 DEF PlaceOK
  <2> SUFFICES ASSUME ~f.raced
               PROVE  /\ job.pc \in {"list", "purge", "unlist", "find", "store"} /\ job.at \in Users => job.at \in users
                      /\ InHand(job, w)
                      /\ job.pc = "drop" /\ job.put => OldFirst(Tail(v), w)
                      /\ back = 0 /\ Purges(job) => AllExpired(Tail(v), clock)
    BY <1>2, <1>13, <1>15, <2>1 DEF LookOK
  <2>2. /\ f.pc \in {"list", "purge", "unlist", "find", "store"} /\ d \in Users => d \in users
        /\ InHand(f, s)
        /\ f.pc = "drop" /\ f.put => OldFirst(v, s)
        /\ back = 0 /\ Purges(f) => AllExpired(v, clock)
    BY <1>3, <1>13 DEF LookOK
  <2>3. InHand(job, w)
    <3>1. ASSUME NEW i \in 1..Len(Tail(v)) PROVE \E j \in 1..Len(w) : w[j] = Tail(v)[i]
      <4>1. PICK j \in 1..Len(s) : s[j] = Tail(v)[i]
        BY <1>2, <1>8, <2>2 DEF InHand
      <4> QED BY <1>5, <1>11, <4>1
    <3> QED BY <1>2, <1>13, <3>1 DEF InHand
  <2>4. ASSUME OldFirst(v, s) PROVE OldFirst(Tail(v), w)
    <3>1. ASSUME NEW i \in 1..Len(Tail(v)), NEW j \in 1..Len(Tail(v)), i < j
          PROVE  Tail(v)[i].made <= Tail(v)[j].made
      <4>1. i + 1 \in 1..Len(v) /\ j + 1 \in 1..Len(v) /\ i + 1 < j + 1
        BY <1>7, <3>1
      <4> QED BY <1>8, <2>4, <4>1 DEF OldFirst
    <3>2. ASSUME NEW i \in 1..Len(Tail(v)), NEW k \in 1..Len(w)
          PROVE  Tail(v)[i].made <= w[k].made \/ \E j \in 1..Len(Tail(v)) : Tail(v)[j] = w[k]
      <4>1. PICK n \in 1..Len(s) : w[k] = s[n] /\ s[n].key # q
        BY <1>5
      <4>2. v[i + 1].made <= s[n].made \/ \E j \in 1..Len(v) : v[j] = s[n]
        BY <1>8, <2>4 DEF OldFirst
      <4>3. \A j \in 1..Len(v) : v[j] = s[n] => j # 1
        BY <1>7, <4>1
      <4> QED BY <1>8, <1>9, <4>1, <4>2, <4>3
    <3> QED BY <3>1, <3>2 DEF OldFirst
  <2>5. AllExpired(v, clock) => AllExpired(Tail(v), clock)
    BY <1>8 DEF AllExpired
  <2>6. Purges(job) => Purges(f)
    BY <1>13 DEF Purges
  <2> QED BY <1>13, <2>2, <2>3, <2>4, <2>5, <2>6
<1>19. adapter = "fastapi" => busy \subseteq {t} /\ ~f.raced /\ Scanning(f, users)
  BY <1>1 DEF CacheInv, LoopOK, Caches
<1>20. ASSUME NEW c \in Timed
       PROVE  Len(level'[c]) + One(Stores(f, c))
                    <= Len(level[c]) + One(Stores(job, c)) + (failed' - failed)
  <2>1. level[c] \in Seq(Entry)
    BY <1>3, NamesApart
  <2>2. Len(level[c]) \in Nat
    BY <2>1
  <2>3. CASE c = d
    <3>1. One(Stores(f, c)) <= 1 /\ One(Stores(job, c)) >= 0
          /\ One(Stores(f, c)) \in Int /\ One(Stores(job, c)) \in Int
      BY DEF One
    <3>2. Len(level'[c]) = Len(level[c]) - 1
      BY <1>5, <1>15, <2>3
    <3> QED BY <1>2, <1>3, <2>2, <3>1, <3>2
  <2>4. CASE c # d
    <3>1. One(Stores(f, c)) = 0 /\ One(Stores(job, c)) = 0
      BY <1>13, <2>4 DEF One, Stores
    <3>2. level'[c] = level[c]
      BY <1>15, <2>4, NamesApart
    <3> QED BY <1>2, <1>3, <2>2, <3>1, <3>2
  <2> QED BY <2>3, <2>4
<1>21. Scanning(f, users) => Scanning(job, users')
  BY <1>2, <1>13 DEF Scanning
<1>22. /\ failed <= failed' /\ users \ {d} \subseteq users' /\ {d} \in SUBSET Dicts
       /\ clock' = clock /\ back' = back /\ failed' = failed
  BY <1>2, <1>3
<1>23. AllTimeOK(job.doomed, clock + back, back)
  BY <1>12, <1>13
<1>24. adapter = "fastapi" => ~job.raced /\ Scanning(job, users')
  BY <1>13, <1>19, <1>21
<1> QED BY <1>2, <1>13, <1>16, <1>17, <1>18, <1>19, <1>20, <1>22, <1>23, <1>24, StepKeeps

\* An operation raises only when another thread was there, never in one loop.
LEMMA EndKeeps ==
    ASSUME CacheInv, NEW t \in Threads, Fail(t) \/ Serve(t) \/ Finish(t)
    PROVE  CacheInv'
<1>1. Caches(t)
  BY DEF Fail, Serve, Finish, InCache, Caches
<1>2. CASE Serve(t) \/ Finish(t)
  BY <1>1, <1>2, DoneKeeps DEF Serve, Finish, InCache
<1>3. CASE Fail(t)
  <2> DEFINE f == look[t]
             s == level[f.at]
  <2>1. SUFFICES ASSUME adapter = "fastapi" PROVE FALSE
    BY <1>1, <1>3, DoneKeeps DEF Fail
  <2>2. ~f.raced /\ Scanning(f, users)
    BY <1>1, <2>1 DEF CacheInv, LoopOK, Caches
  <2>3. LookOK(f, level, users, clock, back) /\ PlaceOK(f) /\ f.doomed \in Seq(Entry)
        /\ f.scans \in Seq(Timed \cup {"users"})
    BY <1>1, HereIs DEF LookOK
  <2>4. \/ f.pc \in {"drop", "purge"} /\ f.doomed # << >> /\ Head(f.doomed).key \notin Keys(s)
        \/ f.pc = "sort" /\ ~(Keys(f.doomed) \subseteq Keys(s))
        \/ f.pc \in {"list", "pick"} /\ Len(s) # f.size
        \/ f.pc \in {"purge", "unlist"} /\ f.at \in Users \ users
        \/ f.pc \in {"find", "store"} /\ f.at \notin users
        \/ f.pc = "look" /\ f.scans # << >> /\ Head(f.scans) \in Users \ users
    BY <1>3 DEF Fail, InCache
  <2>5. f.pc = "look" \/ (f.pc = "drop" /\ f.doomed = << >>) \/ f.pc \in {"evict", "check"} \/
          /\ f.pc \in {"list", "purge", "unlist", "find", "store"} /\ f.at \in Users => f.at \in users
          /\ InHand(f, s)
    <3>1. f.pc \in {"look", "find", "list", "pick", "check", "store", "evict", "sort", "drop",
                    "purge", "unlist"}
      BY <1>1, HereIs DEF Looks
    <3>2. f.pc \in {"find", "store", "list", "pick", "sort", "purge", "unlist"} \/ (f.pc = "drop" /\ f.doomed # << >>)
             => f.at # "none"
      BY <2>3, NamesApart DEF PlaceOK
    <3> QED BY <2>2, <2>3, <3>1, <3>2 DEF LookOK
  <2>6. CASE f.pc \in {"drop", "purge"} /\ f.doomed # << >> /\ Head(f.doomed).key \notin Keys(s)
    <3>1. 1 \in 1..Len(f.doomed) /\ Head(f.doomed) = f.doomed[1]
      BY <2>3, <2>6, TailScans
    <3>2. PICK j \in 1..Len(s) : s[j] = f.doomed[1]
      BY <2>5, <2>6, <3>1 DEF InHand
    <3>3. f.at \in Dicts
      BY <2>3, <2>6, NamesApart DEF PlaceOK
    <3>4. DOMAIN s = 1..Len(s)
      BY <1>1, <3>3, HereIs
    <3> QED BY <2>6, <3>1, <3>2, <3>4 DEF Keys
  <2>7. CASE f.pc = "sort" /\ ~(Keys(f.doomed) \subseteq Keys(s))
    BY <2>5, <2>7 DEF InHand
  <2>8. CASE f.pc \in {"list", "pick"} /\ Len(s) # f.size
    BY <2>5, <2>8 DEF InHand
  <2>9. CASE f.pc \in {"purge", "unlist"} /\ f.at \in Users \ users
    BY <2>5, <2>9
  <2>10. CASE f.pc = "look" /\ f.scans # << >> /\ Head(f.scans) \in Users \ users
    <3>1. 1 \in 1..Len(f.scans) /\ Head(f.scans) = f.scans[1]
      BY <2>3, <2>10, TailScans
    <3> QED BY <2>2, <2>10, <3>1 DEF Scanning
  <2>11. CASE f.pc \in {"find", "store"} /\ f.at \notin users
    BY <2>3, <2>5, <2>11 DEF PlaceOK
  <2> QED BY <2>4, <2>6, <2>7, <2>8, <2>9, <2>10, <2>11
<1> QED BY <1>2, <1>3

\* The clock goes on, or is set back.
LEMMA ClockKeeps ==
    ASSUME CacheInv, Tick \/ SetBack
    PROVE  CacheInv'
<1>1. /\ clock \in Int /\ back \in Nat /\ back \in 0..MaxBack /\ clock + back \in 0..MaxTime
      /\ MaxBack \in Nat /\ MaxTime \in Nat
      /\ look \in [Threads -> Looks] /\ level \in [Dicts -> Seq(Entry)]
  BY CacheAssumption DEF CacheInv, CacheTyped
<1>2. /\ UNCHANGED <<sharedVars, level, users, access, look, failed>>
      /\ clock' \in Int /\ back' \in 0..MaxBack /\ clock' + back' \in 0..MaxTime
      /\ clock + back <= clock' + back' /\ (back' = 0 => back = 0 /\ clock <= clock')
  BY <1>1 DEF Tick, SetBack
<1>3. ASSUME NEW e \in Entry, TimeOK(e, clock + back, back) PROVE TimeOK(e, clock' + back', back')
  <2>1. e.born \in Int /\ e.made \in Int
    BY DEF Entry
  <2>2. e.born <= clock' + back'
    <3>1. e.born <= clock + back
      BY <1>3 DEF TimeOK
    <3>2. clock + back \in Int /\ clock' + back' \in Int
      <4>1. clock' + back' \in 0..MaxTime
        BY <1>2
      <4> QED BY <1>1, <4>1
    <3>3. clock + back <= clock' + back'
      BY <1>2
    <3> QED BY <2>1, <3>1, <3>2, <3>3
  <2>3. e.made <= e.born
    BY <1>3 DEF TimeOK
  <2>4. back' = 0 => e.made = e.born
    BY <1>2, <1>3 DEF TimeOK
  <2> QED BY <2>2, <2>3, <2>4 DEF TimeOK
<1>4. ASSUME NEW s \in Seq(Entry), AllTimeOK(s, clock + back, back)
      PROVE  AllTimeOK(s, clock' + back', back')
  <2>1. \A i \in 1..Len(s) : s[i] \in Entry
    OBVIOUS
  <2> QED BY <1>3, <1>4, <2>1 DEF AllTimeOK
<1>5. ASSUME NEW s \in Seq(Entry), AllExpired(s, clock), back' = 0
      PROVE  AllExpired(s, clock')
  <2>1. ASSUME NEW i \in 1..Len(s) PROVE s[i].ttl # Never /\ clock' > s[i].made + s[i].ttl
    <3>1. s[i] \in Entry
      OBVIOUS
    <3>2. s[i].made \in Int /\ s[i].ttl \in Int
      <4>1. s[i].made \in Int /\ (s[i].ttl \in Ttls \/ s[i].ttl = Never)
        BY <3>1 DEF Entry
      <4>2. Never \in Int
        BY DEF Never
      <4>3. Ttls \subseteq Nat
        BY CacheAssumption
      <4>4. s[i].ttl \in Int
        <5>1. CASE s[i].ttl \in Ttls
          BY <4>3, <5>1
        <5>2. CASE s[i].ttl = Never
          BY <4>2, <5>2
        <5> QED BY <4>1, <5>1, <5>2
      <4> QED BY <4>1, <4>4
    <3>3. s[i].ttl # Never /\ clock > s[i].made + s[i].ttl
      BY <1>5 DEF AllExpired
    <3>4. clock <= clock'
      BY <1>2, <1>5
    <3> QED BY <1>1, <1>2, <3>2, <3>3, <3>4
  <2> QED BY <2>1 DEF AllExpired
<1>6. CacheTyped'
  BY <1>2 DEF CacheInv, CacheTyped
<1>7. TimesOK'
  <2>1. \A t \in Threads : look[t].doomed \in Seq(Entry)
    BY <1>1 DEF Looks
  <2> QED BY <1>1, <1>2, <1>4, <2>1 DEF CacheInv, TimesOK
<1>8. LoopOK' /\ CountOK'
  BY <1>2 DEF CacheInv, LoopOK, CountOK, Storing, sharedVars
<1>9. ASSUME NEW t \in Threads
      PROVE  IF Caches(t)' THEN LookOK(look'[t], level', users', clock', back') ELSE look'[t] = NoLook
  <2>1. look[t].doomed \in Seq(Entry)
    BY <1>1 DEF Looks
  <2>2. (Caches(t)' <=> Caches(t)) /\ look' = look /\ level' = level /\ users' = users
    BY <1>2 DEF Caches, sharedVars
  <2>3. LookOK(look[t], level, users, clock, back) => LookOK(look[t], level, users, clock', back')
    BY <1>2, <1>5, <2>1 DEF LookOK
  <2> QED BY <2>2, <2>3 DEF CacheInv
<1> QED BY <1>2, <1>6, <1>7, <1>8, <1>9 DEF CacheInv

\* A step of another part leaves the cache alone.
LEMMA CacheStays ==
    ASSUME CacheInv, UNCHANGED cacheVars, part' = part, part = "cache" => UNCHANGED sharedVars
    PROVE  CacheInv'
<1>1. /\ UNCHANGED <<level, users, access, clock, look, back, failed>>
      /\ part = "cache" => adapter' = adapter /\ busy' = busy
  BY DEF cacheVars, sharedVars
<1>2. CacheTyped' /\ TimesOK'
  BY <1>1 DEF CacheInv, CacheTyped, TimesOK
<1>3. LoopOK' /\ CountOK'
  BY <1>1 DEF CacheInv, LoopOK, CountOK, Storing
<1>4. \A t \in Threads : IF Caches(t)' THEN LookOK(look'[t], level', users', clock', back')
                         ELSE look'[t] = NoLook
  BY <1>1 DEF CacheInv, Caches
<1> QED BY <1>1, <1>2, <1>3, <1>4 DEF CacheInv

\* Every step keeps the invariant of the cache.
LEMMA CacheStep == CacheInv /\ [Next]_vars => CacheInv'
<1> SUFFICES ASSUME CacheInv, [Next]_vars PROVE CacheInv'
  OBVIOUS
<1>1. ASSUME CacheNext PROVE CacheInv'
  <2>1. ASSUME NEW t \in Threads, NEW q \in Queries, NEW u \in Users, Query(t, u, q)
        PROVE  CacheInv'
    BY <2>1, Begins
  <2>2. ASSUME NEW t \in Threads, NEW q \in Queries, GetScenarioCache(t, q)
        PROVE  CacheInv'
    BY <2>2, Begins
  <2>3. ASSUME NEW t \in Threads, ClearExpired(t) \/ ClearScenario(t)
        PROVE  CacheInv'
    BY <2>3, Begins
  <2>4. ASSUME NEW t \in Threads, NEW q \in Queries, NEW ttl \in Ttls,
               \E d \in {"level_1", "scenario"} : Put(t, d, q, ttl)
        PROVE  CacheInv'
    BY <2>4, PutKeeps
  <2>10. ASSUME NEW t \in Threads, NEW u \in Users, NEW q \in Queries, PutUser(t, u, q)
         PROVE  CacheInv'
    BY <2>10, PutUserKeeps
  <2>11. ASSUME NEW t \in Threads, NEW ttl \in Ttls, StoreUser(t, ttl)
         PROVE  CacheInv'
    BY <2>11, StoreUserKeeps
  <2>5. ASSUME NEW t \in Threads, NEW D \in Clearings, Clear(t, D)
        PROVE  CacheInv'
    <3>1. D \in SUBSET Dicts
      BY NamesApart DEF Clearings
    <3> QED BY <2>5, <3>1, ClearKeeps
  <2>6. ASSUME NEW t \in Threads, NEW q \in Queries, SetLevel3(t, q)
        PROVE  CacheInv'
    BY <2>6, SetLevel3Keeps
  <2>7. ASSUME NEW t \in Threads, NEW K \in SUBSET Queries, PickScenario(t, K)
        PROVE  CacheInv'
    BY <2>7, PickScenarioKeeps
  <2>8. ASSUME NEW t \in Threads,
               \/ Scan(t) \/ ListUsers(t) \/ ListExpired(t) \/ ListKeys(t) \/ EvictOldest(t)
               \/ Drop(t) \/ Dropped(t) \/ Unlist(t) \/ Look(t) \/ LookUser(t) \/ FindUser(t) \/ Stale(t)
        PROVE  CacheInv'
    BY <2>8, ScanKeeps, ListUsersKeeps, ListExpiredKeeps, ListKeysKeeps, EvictOldestKeeps,
       DropKeeps, DroppedKeeps, UnlistKeeps, LookKeeps, StaleKeeps
  <2>9. ASSUME NEW t \in Threads, Fail(t) \/ Serve(t) \/ Finish(t)
        PROVE  CacheInv'
    BY <2>9, EndKeeps
  <2> QED BY <1>1, <2>1, <2>2, <2>3, <2>4, <2>5, <2>6, <2>7, <2>8, <2>9, <2>10, <2>11, ClockKeeps DEF CacheNext
<1>2. ASSUME UNCHANGED cacheVars, StepOf("knowledge") \/ StepOf("servers") \/ StepOf("subagents")
                                  \/ StepOf("stream")
      PROVE  CacheInv'
  BY <1>2, CacheStays DEF StepOf
<1>3. CASE UNCHANGED vars
  BY <1>3, CacheStays DEF vars, sharedVars
<1> QED BY <1>1, <1>2, <1>3, OnlyOnePart DEF Next

-----------------------------------------------------------------------------
(* What the invariant says of a step.                                      *)

\* The cache is empty at first.
LEMMA CacheInitially == Init => CacheInv
<1> SUFFICES ASSUME Init PROVE CacheInv
  OBVIOUS
<1>1. /\ level = [d \in Dicts |-> << >>] /\ users = {} /\ access = 0 /\ clock = 0 /\ back = 0
      /\ look = [t \in Threads |-> NoLook] /\ failed = 0 /\ busy = {}
  BY DEF Init, CacheInit, SharedInit
<1>2. << >> \in Seq(Entry) /\ Len(<< >>) = 0
  OBVIOUS
<1>3. CacheTyped
  <2>1. level \in [Dicts -> Seq(Entry)] /\ look \in [Threads -> Looks]
    BY <1>1, <1>2, NamesApart
  <2>2. IsFiniteSet(users) /\ users \subseteq Users
    BY <1>1, FS_EmptySet
  <2>3. access \in 0..CleanupPeriod - 1 /\ back \in 0..MaxBack /\ clock + back \in 0..MaxTime
    BY <1>1, CacheAssumption
  <2> QED BY <1>1, <2>1, <2>2, <2>3 DEF CacheTyped
<1>4. TimesOK /\ \A d \in Dicts : KeysOK(level[d])
  BY <1>1, <1>2 DEF TimesOK, AllTimeOK, KeysOK, NoLook
<1>5. LoopOK
  BY <1>1 DEF LoopOK
<1>6. CountOK
  <2>1. ASSUME MaxEntries > 0, NEW d \in Timed
        PROVE  Len(level[d]) <= MaxEntries + failed + Cardinality(Storing(d))
    <3>1. Storing(d) = {}
      BY <1>1 DEF Storing
    <3>2. Cardinality(Storing(d)) = 0
      BY <3>1, FS_EmptySet
    <3>3. Len(level[d]) = 0
      BY <1>1, NamesApart
    <3> QED BY <1>1, <2>1, <3>2, <3>3, CacheAssumption
  <2>2. IsFiniteSet(busy) /\ busy \subseteq Threads
    BY <1>1, FS_EmptySet
  <2> QED BY <1>1, <2>1, <2>2 DEF CountOK
<1>7. \A t \in Threads : ~Caches(t) /\ look[t] = NoLook
  BY <1>1 DEF Caches
<1> QED BY <1>3, <1>4, <1>5, <1>6, <1>7 DEF CacheInv

\* An entry is found by its key.
LEMMA FoundByKey ==
    ASSUME NEW s \in Seq(Entry), KeysOK(s), NEW j \in 1..Len(s)
    PROVE  EntryOf(s, s[j].key) = s[j]
<1>1. DOMAIN s = 1..Len(s)
  OBVIOUS
<1>2. \E i \in DOMAIN s : s[i].key = s[j].key
  BY <1>1
<1>3. \A i \in DOMAIN s : s[i].key = s[j].key => i = j
  BY <1>1 DEF KeysOK
<1> QED BY <1>2, <1>3 DEF EntryOf

\* What a deletion takes is old, or expired.
LEMMA OnlyOldIsLost ==
    ASSUME CacheInv, NEW t \in Threads, Drop(t), ~Clears(look[t]),
           ~look[t].raced, ~(back > 0)
    PROVE  LET d == look[t].at
               e == EntryOf(level[d], Head(look[t].doomed).key)
           IN Expired(e) \/ \A j \in DOMAIN level'[d] : level'[d][j].born >= e.born
<1> DEFINE f == look[t]
           d == f.at
           s == level[d]
           v == f.doomed
           q == Head(v).key
           w == WithoutKey(s, q)
<1>1. Caches(t) /\ f.pc \in {"drop", "purge"} /\ v # << >> /\ q \in Keys(s)
      /\ level' = [level EXCEPT ![d] = w]
  BY DEF Drop, InCache, Caches
<1>2. /\ LookOK(f, level, users, clock, back) /\ PlaceOK(f) /\ d \in Dicts /\ d # "none"
      /\ v \in Seq(Entry) /\ level \in [Dicts -> Seq(Entry)]
      /\ s \in Seq(Entry) /\ KeysOK(s) /\ AllTimeOK(s, clock + back, back)
  BY <1>1, HereIs, NamesApart DEF CacheInv, CacheTyped, LookOK, PlaceOK
<1>3. 1 \in 1..Len(v) /\ Head(v) = v[1] /\ Len(v) \in Nat
  BY <1>1, <1>2, TailScans
<1>4. back = 0
  BY CacheAssumption DEF CacheInv, CacheTyped
<1>5. /\ \A i \in 1..Len(v) : \E j \in 1..Len(s) : s[j] = v[i]
      /\ f.pc = "drop" /\ f.put => OldFirst(v, s)
      /\ Purges(f) => AllExpired(v, clock)
  BY <1>1, <1>2, <1>4 DEF LookOK, InHand
<1>6. PICK n \in 1..Len(s) : s[n] = v[1]
  BY <1>3, <1>5
<1>7. EntryOf(s, q) = v[1]
  BY <1>2, <1>3, <1>6, FoundByKey
<1> HIDE DEF v, s
<1>8. \A k \in 1..Len(s) : s[k] \in Entry /\ s[k].made \in Int /\ s[k].born \in Int
  <2>1. \A k \in 1..Len(s) : s[k] \in Entry
    BY <1>2
  <2> QED BY <2>1 DEF Entry
<1> USE DEF v, s
<1>9. CASE Purges(f)
  <2>1. v[1].ttl # Never /\ clock > v[1].made + v[1].ttl
    BY <1>3, <1>5, <1>9 DEF AllExpired
  <2> QED BY <1>7, <2>1 DEF Expired
<1>10. CASE ~Purges(f)
  <2>1. OldFirst(v, s)
    BY <1>1, <1>5, <1>10 DEF Purges, Clears
  <2>2. ASSUME NEW k \in 1..Len(s) PROVE v[1].made <= s[k].made
    <3>1. v[1].made \in Int
      BY <1>6, <1>8
    <3>2. CASE \E j \in 1..Len(v) : v[j] = s[k]
      <4>1. PICK j \in 1..Len(v) : v[j] = s[k]
        BY <3>2
      <4>2. j = 1 \/ 1 < j
        BY <1>3
      <4>3. v[1].made <= v[j].made
        BY <1>3, <2>1, <3>1, <4>2 DEF OldFirst
      <4> QED BY <4>1, <4>3
    <3> QED BY <1>3, <2>1, <3>2 DEF OldFirst
  <2>3. \A k \in 1..Len(s) : s[k].made = s[k].born
    BY <1>2, <1>4 DEF AllTimeOK, TimeOK
  <2>4. \A k \in 1..Len(s) : s[k].born >= v[1].born
    <3> SUFFICES ASSUME NEW k \in 1..Len(s) PROVE s[k].born >= v[1].born
      OBVIOUS
    <3>1. v[1].made = v[1].born /\ s[k].made = s[k].born /\ v[1].made <= s[k].made
      BY <1>6, <2>2, <2>3
    <3>2. s[k].born \in Int /\ v[1].born \in Int
      BY <1>6, <1>8
    <3> QED BY <3>1, <3>2
  <2>5. level'[d] = w /\ w \in Seq(Entry)
        /\ \A j \in 1..Len(w) : \E i \in 1..Len(s) : w[j] = s[i] /\ s[i].key # q
    BY <1>1, <1>2, WithoutKeyIs
  <2>6. DOMAIN w = 1..Len(w)
    BY <2>5
  <2>7. \A j \in DOMAIN level'[d] : level'[d][j].born >= v[1].born
    BY <2>4, <2>5, <2>6
  <2> QED BY <1>7, <2>7
<1> QED BY <1>9, <1>10

\* What is served is fresh, but for the time the clock was set back.
LEMMA OnlyFreshIsServed ==
    ASSUME CacheInv, NEW t \in Threads, Serve(t), Head(look[t].doomed).ttl # Never
    PROVE  clock + back - Head(look[t].doomed).born <= Head(look[t].doomed).ttl + back
<1> DEFINE f == look[t]
           e == Head(f.doomed)
<1>1. Caches(t) /\ f.pc = "check" /\ ~Expired(e)
  BY DEF Serve, InCache, Caches
<1>2. f.doomed \in Seq(Entry) /\ Len(f.doomed) = 1 /\ AllTimeOK(f.doomed, clock + back, back)
  BY <1>1, HereIs DEF LookOK, PlaceOK
<1>3. f.doomed # << >>
  BY <1>2
<1>4. e = f.doomed[1] /\ 1 \in 1..Len(f.doomed) /\ e \in Entry
  BY <1>2, <1>3, TailScans
<1>5. e.made <= e.born /\ e.made \in Int /\ e.born \in Int
  <2>1. TimeOK(e, clock + back, back)
    BY <1>2, <1>4 DEF AllTimeOK
  <2> QED BY <1>4, <2>1 DEF TimeOK, Entry
<1>6. e.ttl \in Int
  <2>1. e.ttl \in Ttls \cup {Never}
    BY <1>4 DEF Entry
  <2>2. Ttls \subseteq Nat
    BY CacheAssumption
  <2>3. e.ttl \in Ttls
    BY <2>1
  <2> HIDE DEF e
  <2>4. e.ttl \in Nat
    BY <2>2, <2>3
  <2> QED BY <2>4
<1>7. clock \in Int /\ back \in Int
  BY CacheAssumption DEF CacheInv, CacheTyped
<1>8. ~(clock > e.made + e.ttl)
  BY <1>1 DEF Expired
<1> HIDE DEF e
<1>9. clock + back - e.born <= e.ttl + back
  BY <1>5, <1>6, <1>7, <1>8
<1> QED BY <1>9 DEF e

\* A level is above its limit by the entries still to be evicted, at most.
LEMMA BoundIs == CacheInv => LevelsBounded
<1> SUFFICES ASSUME CacheInv PROVE LevelsBounded
  OBVIOUS
<1>1. failed \in Nat /\ level \in [Dicts -> Seq(Entry)] /\ MaxEntries \in Nat /\ CountOK /\ LoopOK
  BY CacheAssumption DEF CacheInv, CacheTyped
<1>2. adapter = "fastapi" => failed = 0
  BY <1>1 DEF CountOK, LoopOK
<1>3. ASSUME MaxEntries > 0, NEW d \in Timed
      PROVE  Len(level[d]) <= MaxEntries + failed
               + Cardinality({t \in Threads : t \in busy /\ look[t].put /\ look[t].at = d})
  <2> DEFINE A == {t \in Threads : t \in busy /\ look[t].put /\ look[t].at = d}
  <2>1. CASE part = "cache"
    <3>1. /\ busy \subseteq Threads /\ IsFiniteSet(busy)
          /\ Len(level[d]) <= MaxEntries + failed + Cardinality(Storing(d))
      BY <1>1, <1>3, <2>1 DEF CountOK
    <3>2. Storing(d) \subseteq A /\ A \subseteq busy
      BY <3>1 DEF Storing, Stores
    <3>3. IsFiniteSet(A)
      BY <3>1, <3>2, FS_Subset
    <3>4. Cardinality(Storing(d)) <= Cardinality(A) /\ IsFiniteSet(Storing(d))
      BY <3>2, <3>3, FS_Subset
    <3>5. Cardinality(A) \in Nat /\ Cardinality(Storing(d)) \in Nat
      BY <3>3, <3>4, FS_CardinalityType
    <3>6. Len(level[d]) \in Nat
      BY <1>1, NamesApart
    <3> HIDE DEF A
    <3>7. Len(level[d]) <= MaxEntries + failed + Cardinality(A)
      BY <1>1, <3>1, <3>4, <3>5, <3>6
    <3> QED BY <3>7 DEF A
  <2>2. CASE part # "cache"
    <3>1. level[d] = << >> /\ failed = 0
      BY <1>1, <2>2, NamesApart DEF CountOK
    <3>2. A = {}
      <4>1. ASSUME NEW t \in A PROVE FALSE
        <5>1. look[t] = NoLook
          BY <2>2 DEF CacheInv, Caches
        <5> QED BY <5>1 DEF NoLook
      <4> QED BY <4>1
    <3>3. Cardinality(A) = 0
      BY <3>2, FS_EmptySet
    <3>4. Len(level[d]) = 0
      BY <3>1
    <3> HIDE DEF A
    <3>5. Len(level[d]) <= MaxEntries + failed + Cardinality(A)
      BY <1>1, <3>1, <3>3, <3>4
    <3> QED BY <3>5 DEF A
  <2> QED BY <2>1, <2>2
<1> QED BY <1>2, <1>3 DEF LevelsBounded

\* No step loses or serves what it should not, or lets a level grow.
LEMMA CacheSoundStep ==
    ASSUME CacheInv, [Next]_vars
    PROVE  LosesOnlyOld /\ ServedFresh /\ LevelsBounded'
<1>1. CacheInv'
  BY CacheStep
<1>2. LevelsBounded'
  BY <1>1, BoundIs, PTL
<1>3. ServedFresh
  BY OnlyFreshIsServed DEF ServedFresh
<1>4. LosesOnlyOld
  <2>1. ASSUME NEW t \in Threads, Unlist(t) PROVE level[look[t].at] = << >> \/ look[t].raced
    <3>1. Caches(t) /\ look[t].pc = "unlist"
      BY <2>1 DEF Unlist, InCache, Caches
    <3>2. LookOK(look[t], level, users, clock, back) /\ look[t].at # "none"
      BY <3>1, HereIs, NamesApart DEF LookOK, PlaceOK
    <3> QED BY <3>1, <3>2 DEF LookOK, InHand
  <2> QED BY <2>1, OnlyOldIsLost DEF LosesOnlyOld
<1> QED BY <1>2, <1>3, <1>4

\* In one loop and with threads that interleave inside of every operation: what the cache
\* deletes is expired or the oldest of its level, what it serves has not outlived its time,
\* and a level is above its limit only by what a thread is still evicting or failed to,
\* unless another thread changed the level meanwhile or the clock was set back.  In one
\* loop no operation of the cache raises.
THEOREM AlwaysCacheSound == Spec => CacheSound
<1>1. CacheInv /\ [Next]_vars => [LosesOnlyOld /\ ServedFresh /\ LevelsBounded']_vars
  BY CacheSoundStep
<1> QED BY <1>1, CacheInitially, CacheStep, PTL DEF Spec, CacheSound

-----------------------------------------------------------------------------
(* The types of all parts.                                                 *)

\* What the invariants of the parts leave of the types: the bounds of the calls and of the
\* queue, and the roles.
Bounds ==
    /\ SharedTypeOK
    /\ roles \subseteq Roles /\ forgotten \subseteq Roles
    /\ queue \in Seq(End..MaxCalls[part]) /\ Len(queue) <= QueueSize
    /\ got \in Seq(ErrorEvent..MaxCalls[part])

\* Nothing is called or queued at first.
LEMMA BoundsInitially == Init => Bounds
<1> SUFFICES ASSUME Init PROVE Bounds
  OBVIOUS
<1>1. /\ part \in Parts /\ adapter \in {"fastapi", "flask"} /\ busy = {} /\ calls = 0
      /\ roles \subseteq Roles /\ forgotten = {} /\ queue = << >> /\ got = << >>
  BY DEF Init, SharedInit, SubAgentsInit, Initially, FlaskInit
<1>2. SharedTypeOK
  BY <1>1, SharedAssumption DEF SharedTypeOK
<1>3. << >> \in Seq(End..MaxCalls[part]) /\ << >> \in Seq(ErrorEvent..MaxCalls[part]) /\ Len(<< >>) = 0
  OBVIOUS
<1> QED BY <1>1, <1>2, <1>3, FlaskAssumption DEF Bounds

\* The roles are those that are registered.
LEMMA RolesStay ==
    ASSUME roles \subseteq Roles, forgotten \subseteq Roles, SubAgentsNext
    PROVE  roles' \subseteq Roles /\ forgotten' \subseteq Roles
<1>1. ASSUME NEW i, NEW k, Gathers(i, k) PROVE UNCHANGED <<roles, forgotten>>
  BY <1>1 DEF Gathers
<1>2. ASSUME NEW i,
             \/ StartKid(i) \/ HandlerReturns(i) \/ HandlerRaises(i) \/ HandlerReturnsNone(i)
             \/ HandlerCancels(i) \/ Expire(i) \/ HandlerStops(i)
      PROVE  UNCHANGED <<roles, forgotten>>
  BY <1>1, <1>2 DEF StartKid, HandlerReturns, HandlerRaises, HandlerReturnsNone,
                    HandlerCancels, Expire, HandlerStops, Ends
<1>3. ASSUME NEW rs, Dispatch(rs) \/ CancelDispatch \/ Returns PROVE UNCHANGED <<roles, forgotten>>
  BY <1>3 DEF Dispatch, CancelDispatch, Returns
<1>4. ASSUME NEW r \in Roles, NEW own \in BOOLEAN, UnregisterRole(r) \/ RegisterRole(r, own)
      PROVE  roles' \subseteq Roles /\ forgotten' \subseteq Roles
  BY <1>4 DEF UnregisterRole, RegisterRole
<1> QED BY <1>2, <1>3, <1>4 DEF SubAgentsNext

\* An event that is queued is one of the run, and has found a place.
LEMMA QueueStays ==
    ASSUME Bounds, FlaskNext, part' = part
    PROVE  /\ queue' \in Seq(End..MaxCalls[part]) /\ Len(queue') <= QueueSize
           /\ got' \in Seq(ErrorEvent..MaxCalls[part])
<1> DEFINE E == End..MaxCalls[part]
           G == ErrorEvent..MaxCalls[part]
<1>1. /\ queue \in Seq(E) /\ Len(queue) \in Nat /\ Len(queue) <= QueueSize /\ got \in Seq(G)
      /\ MaxCalls[part] \in Nat /\ calls \in 0..MaxCalls[part] /\ QueueSize \in Nat \ {0}
  BY SharedAssumption, FlaskAssumption DEF Bounds, SharedTypeOK
<1>2. Sending \in E /\ End \in E
  BY <1>1 DEF Sending, End, ErrorEvent
<1>3. \A e \in E : e # End => e \in G
  BY <1>1 DEF End, ErrorEvent
<1> HIDE DEF E, G
<1>4. ASSUME NEW e \in E, ~QueueFull PROVE Append(queue, e) \in Seq(E) /\ Len(Append(queue, e)) <= QueueSize
  <2>1. Append(queue, e) \in Seq(E) /\ Len(Append(queue, e)) = Len(queue) + 1
    BY <1>1
  <2>2. Len(queue) < QueueSize
    BY <1>1, <1>4 DEF QueueFull
  <2> QED BY <1>1, <2>1, <2>2
<1>5. CASE RunPuts
  BY <1>1, <1>2, <1>4, <1>5 DEF RunPuts, E, G
<1>6. CASE FinishStream
  BY <1>1, <1>2, <1>4, <1>6 DEF FinishStream, E, G
<1>7. CASE Receive
  <2>1. /\ queue # << >> /\ queue' = Tail(queue)
        /\ got' = got \/ (Head(queue) # End /\ got' = Append(got, Head(queue)))
    BY <1>7 DEF Receive
  <2>2. Head(queue) \in E /\ Tail(queue) \in Seq(E) /\ Len(Tail(queue)) = Len(queue) - 1
    BY <1>1, <2>1, HeadTailProperties
  <2>3. Len(queue') <= QueueSize
    BY <1>1, <2>1, <2>2
  <2>4. got' \in Seq(G)
    <3>1. got \in Seq(G)
      BY <1>1
    <3>2. CASE got' = got
      BY <3>1, <3>2
    <3>3. CASE Head(queue) # End /\ got' = Append(got, Head(queue))
      <4>1. Head(queue) \in G
        BY <1>3, <2>2, <3>3
      <4>2. Append(got, Head(queue)) \in Seq(G)
        BY <3>1, <4>1, AppendProperties
      <4> QED BY <3>3, <4>2
    <3> QED BY <2>1, <3>2, <3>3
  <2> QED BY <2>1, <2>2, <2>3, <2>4 DEF E, G
<1>8. CASE \/ SendEvent \/ RunFindsFull \/ RunWaits \/ SendRefused \/ SendTimesOut \/ RunFails \/ Rejected
           \/ FindsEmpty \/ GeneratorWaits \/ Broken \/ Heartbeat \/ ClientGone
  <2>1. queue' = queue /\ got' = got
    BY <1>8 DEF SendEvent, RunFindsFull, RunWaits, SendRefused, SendTimesOut, RunFails, Rejected,
                FindsEmpty, GeneratorWaits, Broken, Heartbeat, ClientGone
  <2> QED BY <1>1, <2>1 DEF E, G
<1> QED BY <1>5, <1>6, <1>7, <1>8 DEF FlaskNext

\* Every step keeps the bounds.
LEMMA BoundsStep == Bounds /\ [Next]_vars => Bounds'
<1> SUFFICES ASSUME Bounds, [Next]_vars PROVE Bounds'
  OBVIOUS
<1>1. ASSUME NEW p, StepOf(p) PROVE SharedTypeOK' /\ part' = part
  <2>1. part \in Parts /\ MaxCalls[part] \in Nat /\ calls \in 0..MaxCalls[part]
    BY SharedAssumption DEF Bounds, SharedTypeOK
  <2>2. calls' \in 0..MaxCalls[part]
    BY <1>1, <2>1 DEF StepOf
  <2>3. busy' \subseteq Threads
    BY <1>1 DEF StepOf, Bounds, SharedTypeOK
  <2> QED BY <1>1, <2>2, <2>3 DEF StepOf, Bounds, SharedTypeOK
<1>2. ASSUME SharedTypeOK', part' = part, UNCHANGED <<roles, forgotten, queue, got>> PROVE Bounds'
  BY <1>2 DEF Bounds
<1>3. CASE \/ CacheNext /\ UNCHANGED <<knowledgeVars, serversVars, subAgentsVars, flaskVars>>
           \/ KnowledgeNext /\ UNCHANGED <<cacheVars, serversVars, subAgentsVars, flaskVars>>
           \/ ServersNext /\ UNCHANGED <<cacheVars, knowledgeVars, subAgentsVars, flaskVars>>
  BY <1>1, <1>2, <1>3, OnlyOnePart DEF subAgentsVars, flaskVars
<1>4. CASE SubAgentsNext /\ UNCHANGED <<cacheVars, knowledgeVars, serversVars, flaskVars>>
  <2>1. SharedTypeOK' /\ part' = part /\ UNCHANGED <<queue, got>>
    BY <1>1, <1>4, OnlyOnePart DEF flaskVars
  <2> QED BY <1>4, <2>1, RolesStay DEF Bounds
<1>5. CASE FlaskNext /\ UNCHANGED <<cacheVars, knowledgeVars, serversVars, subAgentsVars>>
  <2>1. SharedTypeOK' /\ part' = part /\ UNCHANGED <<roles, forgotten>>
    BY <1>1, <1>5, OnlyOnePart DEF subAgentsVars
  <2> QED BY <1>5, <2>1, QueueStays DEF Bounds
<1>6. CASE UNCHANGED vars
  BY <1>6 DEF vars, sharedVars, subAgentsVars, flaskVars, Bounds, SharedTypeOK
<1> QED BY <1>3, <1>4, <1>5, <1>6 DEF Next

\* Type correctness of all five parts.
THEOREM ServicesTypeCorrect == Spec => []TypeOK
<1>1. CacheInv /\ SearchInv /\ ServersInv /\ DispatchInv /\ FlaskInv /\ Bounds => TypeOK
  <2> SUFFICES ASSUME CacheInv, SearchInv, ServersInv, DispatchInv, FlaskInv, Bounds PROVE TypeOK
    OBVIOUS
  <2>1. /\ level \in [Dicts -> Seq(Entry)] /\ users \subseteq Users /\ access \in 0..CleanupPeriod - 1
        /\ look \in [Threads -> Looks] /\ back \in 0..MaxBack /\ failed \in Nat
        /\ clock \in Int /\ clock + back \in 0..MaxTime
    BY DEF CacheInv, CacheTyped
  <2>2. clock \in -MaxBack..MaxTime
    BY <2>1, CacheAssumption
  <2>3. /\ docs \in Seq(Slot \cup {Hole}) /\ index \in Seq(Slot \cup {Hole})
        /\ words \subseteq Texts /\ dirty \in BOOLEAN /\ suspect \in BOOLEAN
        /\ find \in [Threads -> Finds]
    BY DEF SearchInv, KnowledgeTyped, Places
  <2>4. /\ client \in [Clients -> ClientStates] /\ tracked \in Seq(Clients)
        /\ sweep \in [Threads -> Sweeps]
        /\ registry.tools \in [Names -> [client : Clients \cup {"none"}, category : Categories \cup {"none"}]]
        /\ registry.categories \in [Categories -> Seq(Names)]
    BY DEF ServersInv, RegistryOK, Tools
  <2>5. /\ fanout \in Fanouts /\ handlers \subseteq Roles
        /\ roles \subseteq Roles /\ forgotten \subseteq Roles
    BY DEF DispatchInv, Bounds
  <2>6. /\ owner \in {"none", "run", "generator"} /\ sender \in Senders
        /\ reader \in {"asks", "bind", "waits", "ended", "broken", "gone"} /\ filled \in BOOLEAN
    BY DEF FlaskInv, FlaskTyped
  <2>7. /\ SharedTypeOK /\ queue \in Seq(End..MaxCalls[part]) /\ Len(queue) <= QueueSize
        /\ got \in Seq(ErrorEvent..MaxCalls[part])
    BY DEF Bounds
  <2> QED BY <2>1, <2>2, <2>3, <2>4, <2>5, <2>6, <2>7 DEF TypeOK
<1>2. Spec => [](CacheInv /\ SearchInv /\ ServersInv /\ DispatchInv /\ FlaskInv /\ Bounds)
  BY CacheInitially, SearchInitially, ServersInitially, DispatchInit, FlaskInitially, BoundsInitially,
     CacheStep, SearchStep, ServersStep, DispatchStep, FlaskStep, BoundsStep, PTL DEF Spec
<1> QED BY <1>1, <1>2, PTL

-----------------------------------------------------------------------------
(* The shell of a request: the lists of the agent and the walks over them. *)

\* x became a member before y did, when K are all members ever.
Earlier(x, y, K) == \E i, j \in 1..Len(K) : i < j /\ K[i] = x /\ K[j] = y
InOrder(q, K) == \A i, j \in 1..Len(q) : i < j => Earlier(q[i], q[j], K)

\* A walk over the hooks H: what was asked is in order and before all that is ahead; and
\* unless a member was removed, the list has only grown, and all behind the index was asked.
HookWalk(w, H, K) ==
    /\ w.pc \in {"hooks", "hook", "body"} =>
         InOrder(w.asked, K) /\ ToSet(w.asked) \subseteq ToSet(K)
    /\ w.pc \in {"hooks", "hook"} =>
         /\ \A x \in ToSet(w.asked) : \A j \in 1..Len(H) : j > w.i => Earlier(x, H[j], K)
         /\ w.lost = {} =>
              /\ w.i <= Len(H) /\ \A j \in 1..w.i : H[j] \in ToSet(w.asked)
              /\ \A j \in 1..Len(w.began) : j \in 1..Len(H) /\ H[j] = w.began[j]
    /\ w.pc = "body" /\ ~w.cut /\ w.lost = {} => ToSet(w.began) \subseteq ToSet(w.asked)

\* A walk over the stages S: unless one was removed, a stage it began with was asked or is
\* ahead.
StageWalk(w, S) ==
    /\ w.pc \in {"stages", "stage"} /\ w.lost = {} =>
         \A x \in ToSet(w.began) \ KB :
            x \in ToSet(w.asked) \/ \E j \in 1..Len(S) : j > w.i /\ S[j] = x
    /\ w.pc = "dispatch" /\ w.mode = "run" /\ ~w.cut /\ w.lost = {} =>
         ToSet(w.began) \ KB \subseteq ToSet(w.asked)

\* The way of a request through the chain C.
ChainWalk(w, C) ==
    /\ w.index <= Len(C) /\ Len(w.entered) = w.index
    /\ \A j \in 1..w.index : w.entered[j] = C[j]
    /\ w.bodies <= w.again + 1
    /\ w.pc \in {"new", "next", "before", "open"} => w.bodies <= w.again
    /\ w.pc \in Walking => w.bodies > 0
    /\ w.response => w.bodies > 0 \/ w.made

FramesOK(w) ==
    /\ w.pc \in {"before", "after", "raising"} => w.frames # << >>
    /\ w.pc = "hook" => w.at \in Hooks
    /\ w.pc = "done" <=> w.outcome # "open"
    /\ w.outcome = "response" => w.response

RunOK(w, H, S, C, K) ==
    w \in Walk /\ FramesOK(w) /\ HookWalk(w, H, K) /\ StageWalk(w, S) /\ ChainWalk(w, C)

ListsOK(H, S, C, K) ==
    /\ H \in Seq(Hooks) /\ S \in Seq(Stages) /\ C \in Seq(Middlewares) /\ K \in Seq(Member)
    /\ \A i, j \in 1..Len(K) : K[i] = K[j] => i = j
    /\ ToSet(H) \subseteq ToSet(K) /\ InOrder(H, K)

ShellInv ==
    /\ ListsOK(hooks, stages, chain, known)
    /\ edits \in 0..MaxEdits /\ left \subseteq Hooks
    /\ walk \in [Runs -> Walk]
    /\ \A r \in Runs : RunOK(walk[r], hooks, stages, chain, known)

LEMMA ShellInitially == ShellInit => ShellInv
<1> SUFFICES ASSUME ShellInit PROVE ShellInv
  OBVIOUS
<1>1. PICK a, b, c : /\ hooks = a /\ stages = b /\ chain = c
                     /\ a \in {<< >>} \cup {<<h>> : h \in Hooks}
                     /\ b \in {<< >>} \cup {<<s>> : s \in Stages}
                     /\ c \in {<< >>} \cup {<<m>> : m \in Middlewares}
                     /\ known = a \o b \o c
  BY DEF ShellInit
<1>2. /\ a \in Seq(Hooks) /\ Len(a) \in 0..1 /\ b \in Seq(Stages) /\ Len(b) \in 0..1
      /\ c \in Seq(Middlewares) /\ Len(c) \in 0..1
  <2>1. ASSUME NEW T, NEW s \in {<< >>} \cup {<<x>> : x \in T} PROVE s \in Seq(T) /\ Len(s) \in 0..1
    <3>1. CASE s = << >>
      <4>1. s \in Seq(T) /\ Len(s) = 0
        BY <3>1, EmptySeq
      <4> QED BY <4>1
    <3>2. CASE s # << >>
      <4>1. PICK x \in T : s = <<x>>
        BY <2>1, <3>2
      <4>2. <<x>> \in Seq(T) /\ Len(<<x>>) = 1
        OBVIOUS
      <4> QED BY <4>1, <4>2
    <3> QED BY <3>1, <3>2
  <2> QED BY <1>1, <2>1
<1>3. a \in Seq(Member) /\ b \in Seq(Member) /\ c \in Seq(Member)
  <2>1. Hooks \subseteq Member /\ Stages \subseteq Member /\ Middlewares \subseteq Member
    BY DEF Member
  <2> QED BY <1>2, <2>1, SeqMonotonic
<1>4. /\ a \o b \in Seq(Member) /\ Len(a \o b) = Len(a) + Len(b)
      /\ \A j \in 1..Len(a) + Len(b) : (a \o b)[j] = IF j <= Len(a) THEN a[j] ELSE b[j - Len(a)]
  BY <1>3, ConcatProperties
<1> DEFINE d == a \o b
<1> HIDE DEF d
<1>5. /\ known \in Seq(Member) /\ Len(known) = Len(d) + Len(c)
      /\ \A j \in 1..Len(d) + Len(c) : known[j] = IF j <= Len(d) THEN d[j] ELSE c[j - Len(d)]
  <2>1. known = d \o c /\ d \in Seq(Member)
    BY <1>1, <1>4 DEF d
  <2> QED BY <1>3, <2>1, ConcatProperties
<1>6. \A j \in 1..Len(known) :
         \/ j \in 1..Len(a) /\ known[j] = a[1] /\ known[j] \in Hooks /\ j = 1
         \/ Len(b) = 1 /\ j = Len(a) + 1 /\ known[j] \in Stages
         \/ Len(c) = 1 /\ j = Len(a) + Len(b) + 1 /\ known[j] \in Middlewares
  <2> SUFFICES ASSUME NEW j \in 1..Len(known)
               PROVE  \/ j \in 1..Len(a) /\ known[j] = a[1] /\ known[j] \in Hooks /\ j = 1
                      \/ Len(b) = 1 /\ j = Len(a) + 1 /\ known[j] \in Stages
                      \/ Len(c) = 1 /\ j = Len(a) + Len(b) + 1 /\ known[j] \in Middlewares
    OBVIOUS
  <2>1. Len(d) = Len(a) + Len(b) /\ \A k \in 1..Len(a) + Len(b) : d[k] = IF k <= Len(a) THEN a[k] ELSE b[k - Len(a)]
    BY <1>4 DEF d
  <2>2. CASE j <= Len(a)
    <3>1. j = 1 /\ Len(a) = 1 /\ j \in 1..Len(a) + Len(b) /\ j \in 1..Len(d) + Len(c)
      BY <1>2, <1>5, <2>1, <2>2
    <3>2. known[j] = a[1] /\ a[1] \in Hooks
      BY <1>2, <1>5, <2>1, <2>2, <3>1
    <3> QED BY <3>1, <3>2
  <2>3. CASE ~(j <= Len(a)) /\ j <= Len(d)
    <3>1. Len(b) = 1 /\ j = Len(a) + 1 /\ j - Len(a) = 1 /\ j \in 1..Len(d) + Len(c)
      BY <1>2, <1>5, <2>1, <2>3
    <3>2. known[j] = b[1] /\ b[1] \in Stages
      BY <1>2, <1>5, <2>1, <2>3, <3>1
    <3> QED BY <3>1, <3>2
  <2>4. CASE ~(j <= Len(d))
    <3>1. Len(c) = 1 /\ j = Len(d) + 1 /\ j - Len(d) = 1
      BY <1>2, <1>5, <2>1, <2>4
    <3>2. j \in 1..Len(d) + Len(c) /\ c[1] \in Middlewares
      BY <1>2, <1>5, <2>1, <3>1
    <3>3. known[j] = c[1]
      BY <1>5, <2>4, <3>1, <3>2
    <3> QED BY <2>1, <3>1, <3>2, <3>3
  <2> QED BY <2>2, <2>3, <2>4
<1>7. \A i, j \in 1..Len(known) : known[i] = known[j] => i = j
  <2>1. Hooks \cap Stages = {} /\ (Hooks \cup Stages) \cap Middlewares = {}
    BY ShellAssumption
  <2> QED BY <1>6, <2>1
<1>8. ToSet(hooks) \subseteq ToSet(known)
  <2>1. ToSet(a) = {a[j] : j \in 1..Len(a)} /\ ToSet(known) = {known[j] : j \in 1..Len(known)}
    BY <1>2, <1>5, SetIs
  <2>2. ASSUME NEW j \in 1..Len(a) PROVE j \in 1..Len(known) /\ a[j] = known[j]
    <3>1. j \in 1..Len(a) + Len(b) /\ j \in 1..Len(d) + Len(c) /\ j <= Len(d) /\ j <= Len(a)
      BY <1>2, <1>4 DEF d
    <3>2. d[j] = a[j]
      BY <1>4, <3>1 DEF d
    <3> QED BY <1>5, <3>1, <3>2
  <2> QED BY <1>1, <2>1, <2>2
<1>9. InOrder(hooks, known)
  BY <1>1, <1>2 DEF InOrder
<1>10. ListsOK(hooks, stages, chain, known)
  BY <1>1, <1>2, <1>5, <1>7, <1>8, <1>9 DEF ListsOK
<1>11. edits \in 0..MaxEdits /\ left \subseteq Hooks
  BY ShellAssumption DEF ShellInit
<1>12. ASSUME NEW m \in {"run", "stream"} PROVE RunOK(New(m), hooks, stages, chain, known)
  <2> DEFINE w == New(m)
  <2>1. /\ w.pc = "new" /\ w.frames = << >> /\ w.outcome = "open" /\ w.index = 0
        /\ w.entered = << >> /\ w.bodies = 0 /\ w.again = 0 /\ ~w.response /\ w.made = FALSE
    BY DEF New
  <2>2. w \in Walk
    <3>1. << >> \in Seq(Middlewares) /\ << >> \in Seq(Member) /\ 0 \in 0..MaxAgain /\ 0 \in Nat
      BY ShellAssumption
    <3> QED BY <3>1 DEF New, Walk
  <2> HIDE DEF w
  <2>3. FramesOK(w) /\ HookWalk(w, hooks, known) /\ StageWalk(w, stages)
    BY <2>1 DEF FramesOK, HookWalk, StageWalk
  <2>4. ChainWalk(w, chain)
    <3>1. Len(chain) \in Nat /\ Len(w.entered) = 0
      BY <1>1, <1>2, <2>1
    <3> QED BY <2>1, <3>1 DEF ChainWalk, Walking
  <2> QED BY <2>2, <2>3, <2>4 DEF RunOK, w
<1>13. walk \in [Runs -> {New(m) : m \in {"run", "stream"}}]
  BY DEF ShellInit
<1>14. \A r \in Runs : RunOK(walk[r], hooks, stages, chain, known)
  BY <1>12, <1>13
<1>15. walk \in [Runs -> Walk]
  BY <1>13, <1>14 DEF RunOK
<1> QED BY <1>10, <1>11, <1>14, <1>15 DEF ShellInv

\* The places of the hooks, in the order of registration.
LEMMA EarlierIsAscending ==
    ASSUME ListsOK(hooks, stages, chain, known), NEW q, InOrder(q, known), DOMAIN q = 1..Len(q)
    PROVE  Ascending(q)
<1>1. known \in Seq(Member) /\ \A i, j \in 1..Len(known) : known[i] = known[j] => i = j
  BY DEF ListsOK
<1>2. ASSUME NEW i \in 1..Len(known) PROVE Place(known[i]) = i
  BY <1>1 DEF Place
<1> QED BY <1>2 DEF Ascending, InOrder, Earlier

\* A walk that is at its end is complete.
LEMMA ShellInvImplies == ShellInv => ShellTypeOK /\ WalksComplete /\ MiddlewareNests
<1> SUFFICES ASSUME ShellInv PROVE ShellTypeOK /\ WalksComplete /\ MiddlewareNests
  OBVIOUS
<1>1. ListsOK(hooks, stages, chain, known) /\ walk \in [Runs -> Walk]
      /\ edits \in 0..MaxEdits /\ left \subseteq Hooks
  BY DEF ShellInv
<1>2. ASSUME NEW r \in Runs
      PROVE  RunOK(walk[r], hooks, stages, chain, known) /\ walk[r] \in Walk
  BY DEF ShellInv
<1>3. ShellTypeOK
  BY <1>1, <1>2 DEF ShellTypeOK, ListsOK, RunOK, FramesOK
<1>4. HooksRun
  <2> SUFFICES ASSUME NEW r \in Runs
               PROVE  /\ walk[r].pc \in {"hooks", "hook", "body"} => Ascending(walk[r].asked)
                      /\ walk[r].pc = "body" /\ ~walk[r].cut /\ walk[r].lost = {} =>
                            ToSet(walk[r].began) \subseteq ToSet(walk[r].asked)
    BY DEF HooksRun
  <2>1. HookWalk(walk[r], hooks, known) /\ walk[r].asked \in Seq(Member)
    BY <1>2 DEF RunOK, Walk
  <2>2. DOMAIN walk[r].asked = 1..Len(walk[r].asked)
    BY <2>1
  <2> QED BY <1>1, <2>1, <2>2, EarlierIsAscending DEF HookWalk
<1>5. StagesRun
  BY <1>2 DEF StagesRun, RunOK, StageWalk
<1>6. MiddlewareNests
  <2> SUFFICES ASSUME NEW r \in Runs
               PROVE  /\ walk[r].entered = SubSeq(chain, 1, walk[r].index)
                      /\ walk[r].bodies <= walk[r].again + 1
                      /\ walk[r].outcome = "response" => walk[r].bodies > 0 \/ walk[r].made
    BY DEF MiddlewareNests
  <2> DEFINE w == walk[r]
  <2>1. ChainWalk(w, chain) /\ FramesOK(w) /\ w \in Walk /\ chain \in Seq(Middlewares)
    BY <1>1, <1>2 DEF RunOK, ListsOK
  <2>2. w.index \in 0..Len(chain) /\ w.entered \in Seq(Middlewares)
    BY <2>1 DEF Walk, ChainWalk
  <2> DEFINE part1 == SubSeq(chain, 1, w.index)
  <2>3. /\ part1 \in Seq(Middlewares) /\ Len(part1) = w.index
        /\ \A j \in 1..w.index : part1[j] = chain[j]
    <3>1. 1 \in 1..Len(chain) + 1 /\ 1 <= w.index + 1 /\ w.index - 1 + 1 = w.index
          /\ \A j \in 1..w.index : 1 + j - 1 = j
      BY <2>1, <2>2
    <3> HIDE DEF w
    <3>2. /\ part1 \in Seq(Middlewares) /\ Len(part1) = w.index - 1 + 1
          /\ \A j \in 1..(w.index - 1 + 1) : part1[j] = chain[1 + j - 1]
      BY <2>1, <2>2, <3>1, PartIs
    <3> HIDE DEF part1
    <3> QED BY <3>1, <3>2
  <2> HIDE DEF part1
  <2>4. w.entered = part1
    <3>1. Len(w.entered) = Len(part1) /\ \A j \in 1..Len(w.entered) : w.entered[j] = part1[j]
      BY <2>1, <2>3 DEF ChainWalk
    <3> HIDE DEF w
    <3> QED BY <2>2, <2>3, <3>1, SeqEqual
  <2> QED BY <2>1, <2>4 DEF ChainWalk, FramesOK, part1
<1> QED BY <1>3, <1>4, <1>5, <1>6 DEF WalksComplete

-----------------------------------------------------------------------------
(* A request goes on: the lists stay.                                      *)

LEMMA Advanced ==
    ASSUME ShellInv, NEW r \in Runs, NEW w, RunOK(w, hooks, stages, chain, known),
           walk' = [walk EXCEPT ![r] = w], UNCHANGED lists, left' \subseteq Hooks
    PROVE  ShellInv'
<1>1. walk \in [Runs -> Walk] /\ w \in Walk
  BY DEF ShellInv, RunOK
<1>2. UNCHANGED <<hooks, stages, chain, known, edits>>
  BY DEF lists
<1>3. walk' \in [Runs -> Walk]
  BY <1>1
<1>4. \A s \in Runs : RunOK(walk'[s], hooks, stages, chain, known)
  BY <1>1 DEF ShellInv
<1> QED BY <1>2, <1>3, <1>4 DEF ShellInv

\* A request that is in none of the lists, and whose index and bodies are in order.
LEMMA OutsideOK ==
    ASSUME NEW w \in Walk, FramesOK(w), ChainWalk(w, chain), w.pc \notin Walking
    PROVE  RunOK(w, hooks, stages, chain, known)
BY DEF RunOK, HookWalk, StageWalk, Walking

\* A middleware comes back.
LEMMA BackOK ==
    ASSUME NEW w \in Walk, w.outcome = "open", NEW raised \in BOOLEAN,
           w.index <= Len(chain), Len(w.entered) = w.index,
           \A j \in 1..w.index : w.entered[j] = chain[j],
           w.bodies <= w.again + 1, w.response => w.bodies > 0 \/ w.made
    PROVE  RunOK(Back(w, raised), hooks, stages, chain, known)
<1> DEFINE k == Back(w, raised)
           pc == IF w.frames = << >> THEN "done" ELSE IF raised THEN "raising" ELSE "after"
           outcome == IF w.frames # << >> THEN "open"
                      ELSE IF ~raised /\ w.response THEN "response" ELSE "raised"
<1>1. k = [w EXCEPT !.pc = pc, !.outcome = outcome]
  BY DEF Back
<1>2. /\ pc \in {"done", "raising", "after"} /\ outcome \in {"open", "response", "raised"}
      /\ pc = "done" <=> outcome # "open"
      /\ pc # "done" => w.frames # << >>
      /\ outcome = "response" => w.response
  OBVIOUS
<1> HIDE DEF pc, outcome
<1> HIDE DEF k
<1>3. /\ k \in Walk /\ k.pc = pc /\ k.outcome = outcome /\ k.frames = w.frames
      /\ k.response = w.response /\ k.index = w.index /\ k.entered = w.entered
      /\ k.bodies = w.bodies /\ k.again = w.again /\ k.made = w.made
  <2>1. pc \in {"new", "next", "before", "open", "stages", "stage", "dispatch", "hooks",
               "hook", "body", "after", "raising", "done"}
    BY <1>2
  <2>2. k \in Walk
    BY <1>1, <1>2, <2>1 DEF Walk
  <2>3. /\ k.pc = pc /\ k.outcome = outcome /\ k.frames = w.frames
        /\ k.response = w.response /\ k.index = w.index /\ k.entered = w.entered
        /\ k.bodies = w.bodies /\ k.again = w.again /\ k.made = w.made
    BY <1>1 DEF Walk
  <2> QED BY <2>2, <2>3
<1>4. FramesOK(k) /\ k.pc \notin Walking
  BY <1>2, <1>3 DEF FramesOK, Walking
<1>5. ChainWalk(k, chain)
  BY <1>2, <1>3 DEF ChainWalk, Walking
<1> QED BY <1>3, <1>4, <1>5, OutsideOK DEF k

\* The body returns.
LEMMA ReturnsOK ==
    ASSUME NEW w \in Walk, w.outcome = "open", NEW responds \in BOOLEAN, w.bodies > 0,
           w.bodies <= w.again + 1, w.index <= Len(chain), Len(w.entered) = w.index,
           \A j \in 1..w.index : w.entered[j] = chain[j]
    PROVE  RunOK(BodyReturns(w, responds), hooks, stages, chain, known)
<1> DEFINE k == [w EXCEPT !.response = @ \/ responds, !.at = "none", !.i = 0, !.began = << >>,
                          !.asked = << >>, !.lost = {}, !.cut = FALSE]
<1>1. << >> \in Seq(Member) /\ (w.response \/ responds) \in BOOLEAN
  BY DEF Walk
<1>2. /\ k \in Walk /\ k.outcome = w.outcome /\ k.index = w.index /\ k.entered = w.entered
      /\ k.bodies = w.bodies /\ k.again = w.again /\ k.made = w.made
  BY <1>1 DEF Walk
<1> HIDE DEF k
<1>3. RunOK(Back(k, ~responds), hooks, stages, chain, known)
  BY <1>2, BackOK
<1> QED BY <1>3 DEF BodyReturns, k

\* What a request in its body is known to be.
LEMMA InBody ==
    ASSUME NEW w, RunOK(w, hooks, stages, chain, known), w.pc \in Walking
    PROVE  /\ w \in Walk /\ w.outcome = "open" /\ w.bodies > 0 /\ w.bodies <= w.again + 1
           /\ w.index <= Len(chain) /\ Len(w.entered) = w.index
           /\ \A j \in 1..w.index : w.entered[j] = chain[j]
           /\ \A responds \in BOOLEAN : RunOK(BodyReturns(w, responds), hooks, stages, chain, known)
<1>1. /\ w \in Walk /\ w.outcome = "open" /\ w.bodies > 0 /\ w.bodies <= w.again + 1
      /\ w.index <= Len(chain) /\ Len(w.entered) = w.index
      /\ \A j \in 1..w.index : w.entered[j] = chain[j]
  BY DEF RunOK, FramesOK, ChainWalk, Walking
<1> QED BY <1>1, ReturnsOK

\* It goes on in its body, with its middlewares as they were.
LEMMA OnInBody ==
    ASSUME NEW w \in Walk, NEW k \in Walk, w.bodies > 0, w.bodies <= w.again + 1,
           w.index <= Len(chain), Len(w.entered) = w.index,
           \A j \in 1..w.index : w.entered[j] = chain[j],
           w.outcome = "open", k.outcome = "open", k.pc \in Walking, k.pc = "hook" => k.at \in Hooks,
           k.bodies = w.bodies, k.again = w.again, k.index = w.index, k.entered = w.entered,
           HookWalk(k, hooks, known), StageWalk(k, stages)
    PROVE  RunOK(k, hooks, stages, chain, known)
<1>1. FramesOK(k)
  BY DEF FramesOK, Walking
<1>2. ChainWalk(k, chain)
  BY DEF ChainWalk, Walking
<1> QED BY <1>1, <1>2 DEF RunOK

\* A step along the chain, before the body.
LEMMA ChainSteps ==
    ASSUME ShellInv, NEW r \in Runs, Enters(r) \/ NextHandler(r) \/ Middleware(r)
    PROVE  ShellInv'
<1> DEFINE w == walk[r]
<1>1. walk \in [Runs -> Walk] /\ w \in Walk /\ RunOK(w, hooks, stages, chain, known)
      /\ ListsOK(hooks, stages, chain, known) /\ left \subseteq Hooks
  BY DEF ShellInv
<1>2. FramesOK(w) /\ ChainWalk(w, chain) /\ chain \in Seq(Middlewares)
  BY <1>1 DEF RunOK, ListsOK
<1>3. UNCHANGED lists /\ left' \subseteq Hooks
  BY <1>1 DEF Enters, NextHandler, Middleware
<1>4. CASE Enters(r)
  <2> DEFINE pc == IF w.mode = "run" /\ chain # << >> THEN "next" ELSE "open"
             k == [w EXCEPT !.pc = pc]
  <2>1. w.pc = "new" /\ walk' = [walk EXCEPT ![r] = k]
    BY <1>1, <1>4 DEF Enters, Stands
  <2>2. pc \in {"next", "open"}
    OBVIOUS
  <2> HIDE DEF pc
  <2>3. /\ k \in Walk /\ k.pc = pc /\ k.outcome = w.outcome /\ k.response = w.response
        /\ k.index = w.index /\ k.entered = w.entered /\ k.bodies = w.bodies /\ k.again = w.again /\ k.made = w.made
    BY <1>1, <2>2 DEF Walk
  <2> HIDE DEF k
  <2>4. FramesOK(k) /\ ChainWalk(k, chain) /\ k.pc \notin Walking
    BY <1>2, <2>1, <2>2, <2>3 DEF FramesOK, ChainWalk, Walking
  <2>5. RunOK(k, hooks, stages, chain, known)
    BY <2>3, <2>4, OutsideOK
  <2> QED BY <1>3, <2>1, <2>5, Advanced
<1>5. CASE NextHandler(r) /\ w.index < Len(chain)
  <2> DEFINE n == w.index + 1
             k == [w EXCEPT !.pc = "before", !.index = n, !.frames = Append(@, chain[n]),
                            !.entered = Append(@, chain[n])]
  <2>1. w.pc = "next" /\ walk' = [walk EXCEPT ![r] = k]
    <3>1. walk' = [walk EXCEPT ![r] = IF w.index < Len(chain) THEN k ELSE [w EXCEPT !.pc = "open"]]
      BY <1>5 DEF NextHandler
    <3> HIDE DEF k
    <3> QED BY <1>5, <3>1 DEF NextHandler, Stands
  <2>2. n \in 1..Len(chain) /\ chain[n] \in Middlewares /\ n \in Nat
    BY <1>1, <1>2, <1>5 DEF Walk
  <2>3. w.entered \in Seq(Middlewares) /\ w.frames \in Seq(Middlewares) /\ Len(w.entered) + 1 = n
    BY <1>1, <1>2 DEF Walk, ChainWalk
  <2>4. /\ Append(w.entered, chain[n]) \in Seq(Middlewares)
        /\ Len(Append(w.entered, chain[n])) = n /\ Append(w.entered, chain[n])[n] = chain[n]
        /\ \A j \in 1..Len(w.entered) : Append(w.entered, chain[n])[j] = w.entered[j]
        /\ Append(w.frames, chain[n]) \in Seq(Middlewares) /\ Append(w.frames, chain[n]) # << >>
    BY <2>2, <2>3, AppendProperties
  <2>5. /\ k \in Walk /\ k.pc = "before" /\ k.outcome = w.outcome /\ k.response = w.response
        /\ k.index = n /\ k.entered = Append(w.entered, chain[n]) /\ k.bodies = w.bodies
        /\ k.again = w.again /\ k.made = w.made /\ k.frames # << >>
    BY <1>1, <2>2, <2>4 DEF Walk
  <2>6. \A j \in 1..n : k.entered[j] = chain[j]
    <3>1. \A j \in 1..n : j = n \/ (j \in 1..w.index /\ j \in 1..Len(w.entered))
      BY <1>1, <1>2, <2>3 DEF Walk, ChainWalk
    <3> QED BY <1>2, <2>4, <2>5, <3>1 DEF ChainWalk
  <2> HIDE DEF k
  <2>7. FramesOK(k) /\ k.pc \notin Walking
    BY <1>2, <2>1, <2>5 DEF FramesOK, Walking
  <2>8. ChainWalk(k, chain)
    BY <1>2, <2>1, <2>2, <2>4, <2>5, <2>6 DEF ChainWalk, Walking
  <2>9. RunOK(k, hooks, stages, chain, known)
    BY <2>5, <2>7, <2>8, OutsideOK
  <2> QED BY <1>3, <2>1, <2>9, Advanced
<1>6. CASE NextHandler(r) /\ ~(w.index < Len(chain))
  <2> DEFINE k == [w EXCEPT !.pc = "open"]
  <2>1. w.pc = "next" /\ walk' = [walk EXCEPT ![r] = k]
    BY <1>1, <1>6 DEF NextHandler, Stands
  <2>2. /\ k \in Walk /\ k.pc = "open" /\ k.outcome = w.outcome /\ k.response = w.response
        /\ k.index = w.index /\ k.entered = w.entered /\ k.bodies = w.bodies /\ k.again = w.again /\ k.made = w.made
    BY <1>1 DEF Walk
  <2> HIDE DEF k
  <2>3. FramesOK(k) /\ ChainWalk(k, chain) /\ k.pc \notin Walking
    BY <1>2, <2>1, <2>2 DEF FramesOK, ChainWalk, Walking
  <2>4. RunOK(k, hooks, stages, chain, known)
    BY <2>2, <2>3, OutsideOK
  <2> QED BY <1>3, <2>1, <2>4, Advanced
<1>7. CASE Middleware(r)
  <2>1. w.pc \in {"before", "after", "raising"} /\ w.frames # << >> /\ w.outcome = "open"
    BY <1>2, <1>7 DEF Middleware, FramesOK
  <2>2. CASE /\ w.pc = "before" \/ w.again < MaxAgain
             /\ walk' = [walk EXCEPT ![r].pc = "next",
                                     ![r].again = IF w.pc = "before" THEN @ ELSE @ + 1]
    <3> DEFINE again == IF w.pc = "before" THEN w.again ELSE w.again + 1
               k == [w EXCEPT !.pc = "next", !.again = again]
    <3>1. walk' = [walk EXCEPT ![r] = k]
      BY <1>1, <2>2
    <3>2. w.again \in 0..MaxAgain /\ w.bodies \in Nat /\ w.bodies <= w.again + 1
          /\ (w.pc = "before" => w.bodies <= w.again)
      BY <1>1, <1>2 DEF Walk, ChainWalk
    <3>3. again \in 0..MaxAgain /\ w.bodies <= again
      BY <2>2, <3>2, ShellAssumption
    <3> HIDE DEF again
    <3>4. /\ k \in Walk /\ k.pc = "next" /\ k.outcome = w.outcome /\ k.response = w.response
          /\ k.index = w.index /\ k.entered = w.entered /\ k.bodies = w.bodies /\ k.again = again /\ k.made = w.made
      BY <1>1, <3>3 DEF Walk
    <3> HIDE DEF k
    <3>5. FramesOK(k) /\ k.pc \notin Walking
      BY <1>2, <2>1, <3>4 DEF FramesOK, Walking
    <3>6. ChainWalk(k, chain)
      <4>1. k.bodies <= k.again + 1
        BY <3>2, <3>3, <3>4, ShellAssumption
      <4> QED BY <1>2, <3>3, <3>4, <4>1 DEF ChainWalk, Walking
    <3>7. RunOK(k, hooks, stages, chain, known)
      BY <3>4, <3>5, <3>6, OutsideOK
    <3> QED BY <1>3, <3>1, <3>7, Advanced
  <2>3. ASSUME NEW raised \in BOOLEAN, NEW k \in Contexts([w EXCEPT !.frames = Front(@)]),
               walk' = [walk EXCEPT ![r] = Back(k, raised)]
        PROVE  ShellInv'
    <3> DEFINE k0 == [w EXCEPT !.frames = Front(@)]
    <3>1. Front(w.frames) \in Seq(Middlewares)
      <4>1. w.frames \in Seq(Middlewares) /\ w.frames # << >>
        BY <1>1, <2>1 DEF Walk
      <4>2. 1 \in 1..Len(w.frames) + 1 /\ Len(w.frames) - 1 \in 0..Len(w.frames)
            /\ 1 <= Len(w.frames) - 1 + 1
        BY <4>1
      <4> HIDE DEF w
      <4> QED BY <4>1, <4>2, PartIs DEF Front
    <3>2. /\ k0 \in Walk /\ k0.outcome = w.outcome /\ k0.response = w.response /\ k0.made = w.made
          /\ k0.index = w.index /\ k0.entered = w.entered /\ k0.bodies = w.bodies /\ k0.again = w.again
      BY <1>1, <3>1 DEF Walk
    <3>3. \/ k = k0 \/ k = [k0 EXCEPT !.response = TRUE, !.made = TRUE]
          \/ k = [k0 EXCEPT !.response = FALSE]
      BY <2>3 DEF Contexts
    <3> HIDE DEF k0
    <3>5. /\ k \in Walk /\ k.outcome = w.outcome /\ k.index = w.index /\ k.entered = w.entered
          /\ k.bodies = w.bodies /\ k.again = w.again
          /\ (k.response => w.response \/ k.made) /\ (w.made => k.made)
      <4>1. CASE k = k0
        BY <3>2, <4>1
      <4>2. CASE k = [k0 EXCEPT !.response = TRUE, !.made = TRUE]
        BY <3>2, <4>2 DEF Walk
      <4>3. CASE k = [k0 EXCEPT !.response = FALSE]
        BY <3>2, <4>3 DEF Walk
      <4> QED BY <3>3, <4>1, <4>2, <4>3
    <3>4. RunOK(Back(k, raised), hooks, stages, chain, known)
      BY <1>2, <2>1, <3>5, BackOK DEF ChainWalk
    <3> QED BY <1>3, <2>3, <3>4, Advanced
  <2> QED BY <1>7, <2>2, <2>3 DEF Middleware
<1> QED BY <1>4, <1>5, <1>6, <1>7

\* The next member of the list s is asked.
LEMMA StepIs ==
    ASSUME NEW w \in Walk, NEW S, S \subseteq Member, NEW s \in Seq(S),
           NEW awaiting \in {"stage", "hook"}, NEW end \in {"dispatch", "body"}
    PROVE  /\ w.i < Len(s) =>
                LET k == Step(w, s, awaiting, end) IN
                /\ k \in Walk /\ k.pc = awaiting /\ k.i = w.i + 1 /\ k.at = s[w.i + 1]
                /\ k.asked = Append(w.asked, s[w.i + 1]) /\ w.i + 1 \in 1..Len(s) /\ k.at \in S
                /\ k.mode = w.mode /\ k.began = w.began /\ k.lost = w.lost /\ k.cut = w.cut
                /\ k.outcome = w.outcome /\ k.bodies = w.bodies /\ k.again = w.again /\ k.made = w.made
                /\ k.index = w.index /\ k.entered = w.entered
           /\ ~(w.i < Len(s)) =>
                LET k == Step(w, s, awaiting, end) IN
                /\ k \in Walk /\ k.pc = end /\ k.asked = w.asked
                /\ k.mode = w.mode /\ k.began = w.began /\ k.lost = w.lost /\ k.cut = w.cut
                /\ k.outcome = w.outcome /\ k.bodies = w.bodies /\ k.again = w.again /\ k.made = w.made
                /\ k.index = w.index /\ k.entered = w.entered
<1>1. w.i \in Nat /\ w.asked \in Seq(Member) /\ Len(s) \in Nat
  BY DEF Walk
<1>2. CASE w.i < Len(s)
  <2> DEFINE x == s[w.i + 1]
             a == Append(w.asked, x)
             k == [w EXCEPT !.pc = awaiting, !.i = @ + 1, !.at = x, !.asked = Append(@, x)]
  <2>1. w.i + 1 \in 1..Len(s) /\ x \in S /\ w.i + 1 \in Nat
    BY <1>1, <1>2
  <2>2. x \in Member /\ a \in Seq(Member)
    BY <1>1, <2>1
  <2>3. Step(w, s, awaiting, end) = k
    BY <1>2 DEF Step
  <2> HIDE DEF x
  <2>4. /\ k \in Walk /\ k.pc = awaiting /\ k.i = w.i + 1 /\ k.at = x /\ k.asked = a
        /\ k.mode = w.mode /\ k.began = w.began /\ k.lost = w.lost /\ k.cut = w.cut
        /\ k.outcome = w.outcome /\ k.bodies = w.bodies /\ k.again = w.again /\ k.made = w.made
        /\ k.index = w.index /\ k.entered = w.entered
    BY <2>1, <2>2 DEF Walk
  <2> HIDE DEF k
  <2> QED BY <1>2, <2>1, <2>3, <2>4 DEF x
<1>3. CASE ~(w.i < Len(s))
  <2> DEFINE k == [w EXCEPT !.pc = end]
  <2>1. Step(w, s, awaiting, end) = k
    BY <1>3 DEF Step
  <2>2. /\ k \in Walk /\ k.pc = end /\ k.asked = w.asked
        /\ k.mode = w.mode /\ k.began = w.began /\ k.lost = w.lost /\ k.cut = w.cut
        /\ k.outcome = w.outcome /\ k.bodies = w.bodies /\ k.again = w.again /\ k.made = w.made
        /\ k.index = w.index /\ k.entered = w.entered
    BY DEF Walk
  <2> HIDE DEF k
  <2> QED BY <1>3, <2>1, <2>2
<1> QED BY <1>2, <1>3

\* The request begins a walk over the stages or the hooks as they are.
LEMMA WalksOK ==
    ASSUME ListsOK(hooks, stages, chain, known), NEW w \in Walk, w.bodies > 0,
           w.bodies <= w.again + 1, w.index <= Len(chain), Len(w.entered) = w.index,
           \A j \in 1..w.index : w.entered[j] = chain[j], w.outcome = "open"
    PROVE  /\ RunOK(Walks(w, stages, "stages"), hooks, stages, chain, known)
           /\ RunOK(Walks(w, hooks, "hooks"), hooks, stages, chain, known)
<1>1. /\ hooks \in Seq(Hooks) /\ stages \in Seq(Stages) /\ << >> \in Seq(Member)
      /\ Hooks \subseteq Member /\ Stages \subseteq Member
  BY DEF ListsOK, Member
<1>2. hooks \in Seq(Member) /\ stages \in Seq(Member)
  BY <1>1, SeqMonotonic
<1>3. ASSUME NEW s \in Seq(Member), NEW pc \in {"stages", "hooks"}
      PROVE  LET k == Walks(w, s, pc) IN
             /\ k \in Walk /\ k.pc = pc /\ k.i = 0 /\ k.began = s /\ k.asked = << >> /\ k.lost = {}
             /\ k.outcome = "open" /\ k.bodies = w.bodies /\ k.again = w.again /\ k.made = w.made
             /\ k.index = w.index /\ k.entered = w.entered
  BY <1>1 DEF Walks, Walk
<1>4. RunOK(Walks(w, stages, "stages"), hooks, stages, chain, known)
  <2> DEFINE k == Walks(w, stages, "stages")
  <2>1. /\ k \in Walk /\ k.pc = "stages" /\ k.i = 0 /\ k.began = stages
        /\ k.outcome = "open" /\ k.bodies = w.bodies /\ k.again = w.again /\ k.made = w.made
        /\ k.index = w.index /\ k.entered = w.entered
    BY <1>2, <1>3
  <2> HIDE DEF k
  <2>2. HookWalk(k, hooks, known)
    BY <2>1 DEF HookWalk
  <2>3. StageWalk(k, stages)
    <3>1. ToSet(stages) = {stages[j] : j \in 1..Len(stages)} /\ \A j \in 1..Len(stages) : j > 0
      BY <1>1, SetIs
    <3> QED BY <2>1, <3>1 DEF StageWalk
  <2> QED BY <2>1, <2>2, <2>3, OnInBody DEF k, Walking
<1>5. RunOK(Walks(w, hooks, "hooks"), hooks, stages, chain, known)
  <2> DEFINE k == Walks(w, hooks, "hooks")
  <2>1. /\ k \in Walk /\ k.pc = "hooks" /\ k.i = 0 /\ k.began = hooks /\ k.asked = << >>
        /\ k.outcome = "open" /\ k.bodies = w.bodies /\ k.again = w.again /\ k.made = w.made
        /\ k.index = w.index /\ k.entered = w.entered
    BY <1>2, <1>3
  <2> HIDE DEF k
  <2>2. HookWalk(k, hooks, known)
    <3>1. ToSet(k.asked) = {} /\ Len(k.asked) = 0 /\ Len(hooks) \in Nat
      BY <1>1, <2>1 DEF ToSet
    <3> QED BY <2>1, <3>1 DEF HookWalk, InOrder
  <2>3. StageWalk(k, stages)
    BY <2>1 DEF StageWalk
  <2> QED BY <2>1, <2>2, <2>3, OnInBody DEF k, Walking
<1> QED BY <1>4, <1>5

\* The pipeline.
LEMMA StageSteps ==
    ASSUME ShellInv, NEW r \in Runs,
           \/ Open(r) \/ NextStage(r) \/ StageRaises(r) \/ StageStops(r) \/ StageContinues(r)
           \/ StagesDone(r)
    PROVE  ShellInv'
<1> DEFINE w == walk[r]
<1>1. walk \in [Runs -> Walk] /\ w \in Walk /\ RunOK(w, hooks, stages, chain, known)
      /\ ListsOK(hooks, stages, chain, known) /\ left \subseteq Hooks
  BY DEF ShellInv
<1>2. FramesOK(w) /\ ChainWalk(w, chain) /\ StageWalk(w, stages) /\ stages \in Seq(Stages)
      /\ Stages \subseteq Member
  BY <1>1 DEF RunOK, ListsOK, Member
<1>3. UNCHANGED lists /\ left' \subseteq Hooks
  BY <1>1 DEF Open, NextStage, StageRaises, StageStops, StageContinues, StagesDone
<1>4. ASSUME NEW responds \in BOOLEAN, w.pc \in Walking,
             walk' = [walk EXCEPT ![r] = BodyReturns(@, responds)]
      PROVE  ShellInv'
  <2>1. RunOK(BodyReturns(w, responds), hooks, stages, chain, known)
    BY <1>1, <1>4, InBody
  <2>2. walk' = [walk EXCEPT ![r] = BodyReturns(w, responds)]
    BY <1>4
  <2> QED BY <1>3, <2>1, <2>2, Advanced
<1>5. CASE Open(r)
  <2> DEFINE n == w.bodies + 1
             k == [w EXCEPT !.bodies = n]
  <2>1. w.pc = "open" /\ w.outcome = "open" /\ w.bodies \in Nat /\ w.again \in 0..MaxAgain
        /\ w.bodies <= w.again
    BY <1>1, <1>2, <1>5 DEF Open, Stands, FramesOK, ChainWalk, Walk
  <2>2. /\ k \in Walk /\ k.outcome = "open" /\ k.index = w.index /\ k.entered = w.entered
        /\ k.bodies = n /\ k.again = w.again /\ k.made = w.made /\ k.mode = w.mode
    <3>1. n \in Nat
      BY <2>1
    <3> HIDE DEF n
    <3> QED BY <1>1, <2>1, <3>1 DEF Walk
  <2>3. k.bodies > 0 /\ k.bodies <= k.again + 1
    BY <2>1, <2>2, ShellAssumption
  <2>4. /\ k.index <= Len(chain) /\ Len(k.entered) = k.index
        /\ \A j \in 1..k.index : k.entered[j] = chain[j]
    BY <1>2, <2>2 DEF ChainWalk
  <2>5. \/ \E responds \in BOOLEAN : walk' = [walk EXCEPT ![r] = BodyReturns(k, responds)]
        \/ walk' = [walk EXCEPT ![r] =
              IF k.mode = "run" THEN Walks(k, stages, "stages") ELSE [k EXCEPT !.pc = "dispatch"]]
    BY <1>5 DEF Open
  <2> HIDE DEF k
  <2>6. ASSUME NEW responds \in BOOLEAN, walk' = [walk EXCEPT ![r] = BodyReturns(k, responds)]
        PROVE  ShellInv'
    <3>1. RunOK(BodyReturns(k, responds), hooks, stages, chain, known)
      BY <2>2, <2>3, <2>4, ReturnsOK
    <3> QED BY <1>3, <2>6, <3>1, Advanced
  <2>7. CASE k.mode = "run" /\ walk' = [walk EXCEPT ![r] = Walks(k, stages, "stages")]
    <3>1. RunOK(Walks(k, stages, "stages"), hooks, stages, chain, known)
      BY <1>1, <2>2, <2>3, <2>4, WalksOK
    <3> QED BY <1>3, <2>7, <3>1, Advanced
  <2>8. CASE k.mode # "run" /\ walk' = [walk EXCEPT ![r] = [k EXCEPT !.pc = "dispatch"]]
    <3> DEFINE m == [k EXCEPT !.pc = "dispatch"]
    <3>1. /\ m \in Walk /\ m.pc = "dispatch" /\ m.outcome = "open" /\ m.index = k.index
          /\ m.entered = k.entered /\ m.bodies = k.bodies /\ m.again = k.again /\ m.mode # "run"
      BY <2>2, <2>8 DEF Walk
    <3>2. walk' = [walk EXCEPT ![r] = m]
      BY <2>8
    <3> HIDE DEF m
    <3>3. HookWalk(m, hooks, known) /\ StageWalk(m, stages)
      BY <3>1 DEF HookWalk, StageWalk
    <3>4. RunOK(m, hooks, stages, chain, known)
      BY <2>2, <2>3, <2>4, <3>1, <3>3, OnInBody DEF Walking
    <3> QED BY <1>3, <3>2, <3>4, Advanced
  <2>9. walk' = [walk EXCEPT ![r] =
              IF k.mode = "run" THEN Walks(k, stages, "stages") ELSE [k EXCEPT !.pc = "dispatch"]]
        => \/ k.mode = "run" /\ walk' = [walk EXCEPT ![r] = Walks(k, stages, "stages")]
           \/ k.mode # "run" /\ walk' = [walk EXCEPT ![r] = [k EXCEPT !.pc = "dispatch"]]
    OBVIOUS
  <2> QED BY <2>5, <2>6, <2>7, <2>8, <2>9
<1>6. CASE NextStage(r)
  <2> DEFINE k == Step(w, stages, "stage", "dispatch")
  <2>1. w.pc = "stages" /\ walk' = [walk EXCEPT ![r] = k]
    BY <1>6 DEF NextStage, Stands
  <2>2. w.i \in Nat /\ w.asked \in Seq(Member) /\ Len(stages) \in Nat
    BY <1>1, <1>2 DEF Walk
  <2>3. /\ k \in Walk /\ k.pc \in {"stage", "dispatch"} /\ k.outcome = w.outcome
        /\ k.bodies = w.bodies /\ k.again = w.again /\ k.made = w.made /\ k.index = w.index /\ k.entered = w.entered
    BY <1>1, <1>2, StepIs
  <2>4. HookWalk(k, hooks, known)
    BY <2>3 DEF HookWalk
  <2>5. StageWalk(k, stages)
    <3>1. CASE w.i < Len(stages)
      <4>1. /\ k.pc = "stage" /\ k.i = w.i + 1 /\ w.i + 1 \in 1..Len(stages)
            /\ k.asked = Append(w.asked, stages[w.i + 1]) /\ stages[w.i + 1] \in Stages
            /\ k.began = w.began /\ k.lost = w.lost
        BY <1>1, <1>2, <3>1, StepIs
      <4> HIDE DEF k
      <4>2. ToSet(k.asked) = ToSet(w.asked) \cup {stages[w.i + 1]}
        <5>1. stages[w.i + 1] \in Member
          BY <1>2, <4>1
        <5> HIDE DEF w
        <5> QED BY <2>2, <4>1, <5>1, AppendedSet
      <4>3. \A j \in 1..Len(stages) : j > w.i => j > w.i + 1 \/ j = w.i + 1
        BY <2>2
      <4> QED BY <1>2, <2>1, <4>1, <4>2, <4>3 DEF StageWalk
    <3>2. CASE ~(w.i < Len(stages))
      <4>1. k.pc = "dispatch" /\ k.asked = w.asked /\ k.began = w.began /\ k.lost = w.lost
        BY <1>1, <1>2, <3>2, StepIs
      <4> HIDE DEF k
      <4>2. \A j \in 1..Len(stages) : ~(j > w.i)
        BY <2>2, <3>2
      <4> QED BY <1>2, <2>1, <4>1, <4>2 DEF StageWalk
    <3> QED BY <3>1, <3>2
  <2> HIDE DEF k
  <2>6. /\ w.outcome = "open" /\ w.bodies > 0 /\ w.bodies <= w.again + 1
        /\ w.index <= Len(chain) /\ Len(w.entered) = w.index
        /\ \A j \in 1..w.index : w.entered[j] = chain[j]
    BY <1>1, <2>1, InBody DEF Walking
  <2>7. RunOK(k, hooks, stages, chain, known)
    BY <1>1, <2>3, <2>4, <2>5, <2>6, OnInBody DEF Walking
  <2> QED BY <1>3, <2>1, <2>7, Advanced
<1>7. CASE StageRaises(r)
  BY <1>4, <1>7 DEF StageRaises, Stands, Walking
<1>8. ASSUME w.pc = "stage", NEW pc \in {"stages", "dispatch"}, NEW cut \in BOOLEAN,
             pc = "dispatch" => cut, walk' = [walk EXCEPT ![r] = [w EXCEPT !.pc = pc, !.cut = cut]]
      PROVE  ShellInv'
  <2> DEFINE k == [w EXCEPT !.pc = pc, !.cut = cut]
  <2>1. /\ k \in Walk /\ k.pc = pc /\ k.cut = cut /\ k.outcome = w.outcome /\ k.bodies = w.bodies
        /\ k.again = w.again /\ k.made = w.made /\ k.index = w.index /\ k.entered = w.entered /\ k.lost = w.lost
        /\ k.began = w.began /\ k.asked = w.asked /\ k.i = w.i
    BY <1>1 DEF Walk
  <2> HIDE DEF k
  <2>2. HookWalk(k, hooks, known)
    BY <2>1 DEF HookWalk
  <2>3. StageWalk(k, stages)
    BY <1>2, <1>8, <2>1 DEF StageWalk
  <2>4. /\ w.outcome = "open" /\ w.bodies > 0 /\ w.bodies <= w.again + 1
        /\ w.index <= Len(chain) /\ Len(w.entered) = w.index
        /\ \A j \in 1..w.index : w.entered[j] = chain[j]
    BY <1>1, <1>8, InBody DEF Walking
  <2>5. RunOK(k, hooks, stages, chain, known)
    BY <1>1, <2>1, <2>2, <2>3, <2>4, OnInBody DEF Walking
  <2>6. walk' = [walk EXCEPT ![r] = k]
    BY <1>8 DEF k
  <2> QED BY <1>3, <2>5, <2>6, Advanced
<1>9. CASE StageStops(r)
  <2>1. CASE walk' = [walk EXCEPT ![r] = BodyReturns(@, TRUE)]
    BY <1>4, <1>9, <2>1 DEF StageStops, Stands, Walking
  <2>2. CASE walk' = [walk EXCEPT ![r].pc = "dispatch", ![r].cut = TRUE]
    <3>1. walk' = [walk EXCEPT ![r] = [w EXCEPT !.pc = "dispatch", !.cut = TRUE]]
      BY <1>1, <2>2
    <3> QED BY <1>8, <1>9, <3>1 DEF StageStops, Stands
  <2> QED BY <1>9, <2>1, <2>2 DEF StageStops
<1>10. CASE StageContinues(r)
  <2>1. walk' = [walk EXCEPT ![r] = [w EXCEPT !.pc = "stages", !.cut = w.cut]]
    <3>1. [w EXCEPT !.pc = "stages", !.cut = w.cut] = [w EXCEPT !.pc = "stages"]
      BY <1>1 DEF Walk
    <3> QED BY <1>1, <1>10, <3>1 DEF StageContinues
  <2>2. w.cut \in BOOLEAN /\ w.pc = "stage"
    BY <1>1, <1>10 DEF Walk, StageContinues, Stands
  <2> HIDE DEF w
  <2> QED BY <1>8, <2>1, <2>2
<1>11. CASE StagesDone(r)
  <2>1. w.pc = "dispatch"
    BY <1>11 DEF StagesDone, Stands
  <2>2. CASE walk' = [walk EXCEPT ![r] = BodyReturns(@, TRUE)]
    BY <1>4, <2>1, <2>2 DEF Walking
  <2>3. CASE walk' = [walk EXCEPT ![r] = Walks(@, hooks, "hooks")]
    <3>1. walk' = [walk EXCEPT ![r] = Walks(w, hooks, "hooks")]
      BY <2>3
    <3>2. /\ w.outcome = "open" /\ w.bodies > 0 /\ w.bodies <= w.again + 1
          /\ w.index <= Len(chain) /\ Len(w.entered) = w.index
          /\ \A j \in 1..w.index : w.entered[j] = chain[j]
      BY <1>1, <2>1, InBody DEF Walking
    <3>3. RunOK(Walks(w, hooks, "hooks"), hooks, stages, chain, known)
      BY <1>1, <3>2, WalksOK
    <3> QED BY <1>3, <3>1, <3>3, Advanced
  <2> QED BY <1>11, <2>2, <2>3 DEF StagesDone
<1> QED BY <1>5, <1>6, <1>7, <1>9, <1>10, <1>11

\* The dispatch of the hooks.
LEMMA HookSteps ==
    ASSUME ShellInv, NEW r \in Runs, NextHook(r) \/ HookDone(r) \/ HookStops(r) \/ Body(r)
    PROVE  ShellInv'
<1> DEFINE w == walk[r]
<1>1. walk \in [Runs -> Walk] /\ w \in Walk /\ RunOK(w, hooks, stages, chain, known)
      /\ ListsOK(hooks, stages, chain, known) /\ left \subseteq Hooks
  BY DEF ShellInv
<1>2. FramesOK(w) /\ HookWalk(w, hooks, known) /\ hooks \in Seq(Hooks) /\ Hooks \subseteq Member
      /\ InOrder(hooks, known) /\ ToSet(hooks) \subseteq ToSet(known)
  BY <1>1 DEF RunOK, ListsOK, Member
<1>3. w.pc \in {"hooks", "hook", "body"}
  BY DEF NextHook, HookDone, HookStops, Body, Stands
<1>4. UNCHANGED lists /\ left' \subseteq Hooks
  <2>1. CASE HookDone(r)
    <3>1. w.at \in Hooks
      BY <1>2, <2>1 DEF HookDone, Stands, FramesOK
    <3> QED BY <1>1, <2>1, <3>1 DEF HookDone
  <2>2. CASE NextHook(r) \/ HookStops(r) \/ Body(r)
    BY <1>1, <2>2 DEF NextHook, HookStops, Body
  <2> QED BY <2>1, <2>2
<1>5. /\ w.outcome = "open" /\ w.bodies > 0 /\ w.bodies <= w.again + 1
      /\ w.index <= Len(chain) /\ Len(w.entered) = w.index
      /\ \A j \in 1..w.index : w.entered[j] = chain[j]
  BY <1>1, <1>3, InBody DEF Walking
<1>6. ASSUME walk' = [walk EXCEPT ![r] = BodyReturns(@, TRUE)] PROVE ShellInv'
  <2>1. RunOK(BodyReturns(w, TRUE), hooks, stages, chain, known)
    BY <1>1, <1>3, InBody DEF Walking
  <2>2. walk' = [walk EXCEPT ![r] = BodyReturns(w, TRUE)]
    BY <1>6
  <2> QED BY <1>4, <2>1, <2>2, Advanced
<1>7. CASE NextHook(r)
  <2> DEFINE k == Step(w, hooks, "hook", "body")
  <2>1. w.pc = "hooks" /\ walk' = [walk EXCEPT ![r] = k]
    BY <1>7 DEF NextHook, Stands
  <2>2. w.i \in Nat /\ w.asked \in Seq(Member) /\ w.began \in Seq(Member) /\ Len(hooks) \in Nat
    BY <1>1, <1>2 DEF Walk
  <2>3. /\ k \in Walk /\ k.pc \in {"hook", "body"} /\ k.outcome = w.outcome
        /\ k.bodies = w.bodies /\ k.again = w.again /\ k.made = w.made /\ k.index = w.index /\ k.entered = w.entered
        /\ k.pc = "hook" => k.at \in Hooks
    BY <1>1, <1>2, StepIs
  <2>4. StageWalk(k, stages)
    BY <2>3 DEF StageWalk
  <2>5. HookWalk(k, hooks, known)
    <3>1. CASE w.i < Len(hooks)
      <4> DEFINE n == w.i + 1
                 x == hooks[n]
      <4>1. /\ k.pc = "hook" /\ k.i = n /\ n \in 1..Len(hooks) /\ x \in Hooks
            /\ k.asked = Append(w.asked, x) /\ k.began = w.began /\ k.lost = w.lost
        BY <1>1, <1>2, <3>1, StepIs
      <4> HIDE DEF k
      <4>2. x \in ToSet(hooks)
        <5>1. ToSet(hooks) = {hooks[j] : j \in 1..Len(hooks)}
          BY <1>2, SetIs
        <5> QED BY <4>1, <5>1
      <4>3. n > w.i /\ \A j \in 1..Len(hooks) : j > n => j > w.i
        BY <2>2
      <4>4. \A j \in 1..n : j = n \/ j \in 1..w.i
        BY <2>2
      <4>5. \A y \in ToSet(w.asked) : Earlier(y, x, known)
        BY <1>2, <2>1, <4>1, <4>3 DEF HookWalk
      <4>6. ToSet(k.asked) = ToSet(w.asked) \cup {x}
        <5>1. x \in Member
          BY <1>2, <4>1
        <5> HIDE DEF w, x
        <5> QED BY <2>2, <4>1, <5>1, AppendedSet
      <4>7. /\ Len(k.asked) = Len(w.asked) + 1 /\ k.asked[Len(w.asked) + 1] = x
            /\ \A j \in 1..Len(w.asked) : k.asked[j] = w.asked[j]
        <5>1. x \in Member
          BY <1>2, <4>1
        <5> HIDE DEF w, x
        <5> QED BY <2>2, <4>1, <5>1, AppendProperties
      <4>8. InOrder(k.asked, known)
        <5> SUFFICES ASSUME NEW i \in 1..Len(k.asked), NEW j \in 1..Len(k.asked), i < j
                     PROVE  Earlier(k.asked[i], k.asked[j], known)
          BY DEF InOrder
        <5>1. Len(w.asked) \in Nat /\ i \in 1..Len(w.asked)
              /\ (j \in 1..Len(w.asked) \/ j = Len(w.asked) + 1)
          BY <2>2, <4>7
        <5>2. w.asked[i] \in ToSet(w.asked)
          <6>1. ToSet(w.asked) = {w.asked[l] : l \in 1..Len(w.asked)}
            BY <2>2, SetIs
          <6> QED BY <5>1, <6>1
        <5>3. InOrder(w.asked, known)
          BY <1>2, <2>1 DEF HookWalk
        <5> HIDE DEF w, x
        <5> QED BY <4>5, <4>7, <5>1, <5>2, <5>3 DEF InOrder
      <4>9. \A j \in 1..Len(hooks) : j > n => Earlier(x, hooks[j], known)
        BY <1>2, <4>1 DEF InOrder
      <4> HIDE DEF n, x
      <4>10. ToSet(k.asked) \subseteq ToSet(known)
        BY <1>2, <2>1, <4>2, <4>6 DEF HookWalk
      <4>11. \A y \in ToSet(k.asked) : \A j \in 1..Len(hooks) : j > k.i => Earlier(y, hooks[j], known)
        BY <1>2, <2>1, <4>1, <4>3, <4>6, <4>9 DEF HookWalk
      <4>12. k.lost = {} => /\ k.i <= Len(hooks) /\ \A j \in 1..k.i : hooks[j] \in ToSet(k.asked)
                            /\ \A j \in 1..Len(k.began) : j \in 1..Len(hooks) /\ hooks[j] = k.began[j]
        <5>1. n <= Len(hooks) /\ hooks[n] = x
          BY <4>1 DEF n, x
        <5> QED BY <1>2, <2>1, <4>1, <4>4, <4>6, <5>1 DEF HookWalk
      <4> QED BY <4>1, <4>8, <4>10, <4>11, <4>12 DEF HookWalk
    <3>2. CASE ~(w.i < Len(hooks))
      <4>1. k.pc = "body" /\ k.asked = w.asked /\ k.began = w.began /\ k.lost = w.lost
        BY <1>1, <1>2, <3>2, StepIs
      <4> HIDE DEF k
      <4>2. ToSet(w.began) = {w.began[j] : j \in 1..Len(w.began)}
        BY <2>2, SetIs
      <4>3. \A j \in 1..Len(hooks) : j \in 1..w.i
        BY <2>2, <3>2
      <4>4. w.lost = {} => ToSet(w.began) \subseteq ToSet(w.asked)
        BY <1>2, <2>1, <4>2, <4>3 DEF HookWalk
      <4> QED BY <1>2, <2>1, <4>1, <4>4 DEF HookWalk
    <3> QED BY <3>1, <3>2
  <2> HIDE DEF k
  <2>6. RunOK(k, hooks, stages, chain, known)
    BY <1>1, <1>5, <2>3, <2>4, <2>5, OnInBody DEF Walking
  <2> QED BY <1>4, <2>1, <2>6, Advanced
<1>8. ASSUME w.pc = "hook", NEW pc \in {"hooks", "body"}, NEW cut \in BOOLEAN, pc = "body" => cut,
             walk' = [walk EXCEPT ![r] = [w EXCEPT !.pc = pc, !.cut = cut]]
      PROVE  ShellInv'
  <2> DEFINE k == [w EXCEPT !.pc = pc, !.cut = cut]
  <2>1. /\ k \in Walk /\ k.pc = pc /\ k.cut = cut /\ k.outcome = w.outcome /\ k.bodies = w.bodies
        /\ k.again = w.again /\ k.made = w.made /\ k.index = w.index /\ k.entered = w.entered /\ k.lost = w.lost
        /\ k.began = w.began /\ k.asked = w.asked /\ k.i = w.i
    BY <1>1 DEF Walk
  <2> HIDE DEF k
  <2>2. StageWalk(k, stages)
    BY <2>1 DEF StageWalk
  <2>3. HookWalk(k, hooks, known)
    BY <1>2, <1>8, <2>1 DEF HookWalk
  <2>4. RunOK(k, hooks, stages, chain, known)
    BY <1>1, <1>5, <2>1, <2>2, <2>3, OnInBody DEF Walking
  <2>5. walk' = [walk EXCEPT ![r] = k]
    BY <1>8 DEF k
  <2> QED BY <1>4, <2>4, <2>5, Advanced
<1>9. CASE HookDone(r)
  <2>1. w.pc = "hook" /\ walk' = [walk EXCEPT ![r].pc = "hooks"] /\ w.cut \in BOOLEAN
    BY <1>1, <1>9 DEF HookDone, Stands, Walk
  <2>2. [w EXCEPT !.pc = "hooks", !.cut = w.cut] = [w EXCEPT !.pc = "hooks"]
    BY <1>1 DEF Walk
  <2>3. walk' = [walk EXCEPT ![r] = [w EXCEPT !.pc = "hooks", !.cut = w.cut]]
    BY <1>1, <2>1, <2>2
  <2> HIDE DEF w
  <2> QED BY <1>8, <2>1, <2>3
<1>10. CASE HookStops(r)
  <2>1. CASE walk' = [walk EXCEPT ![r] = BodyReturns(@, TRUE)]
    BY <1>6, <2>1
  <2>2. CASE walk' = [walk EXCEPT ![r].pc = "body", ![r].cut = TRUE]
    <3>1. walk' = [walk EXCEPT ![r] = [w EXCEPT !.pc = "body", !.cut = TRUE]]
      BY <1>1, <2>2
    <3> QED BY <1>8, <1>10, <3>1 DEF HookStops, Stands
  <2> QED BY <1>10, <2>1, <2>2 DEF HookStops
<1>11. CASE Body(r)
  BY <1>6, <1>11 DEF Body
<1> QED BY <1>7, <1>9, <1>10, <1>11

-----------------------------------------------------------------------------
(* The lists change.                                                       *)

\* A member that is new comes after all others; what came before what stays so.
LEMMA KnownGrows ==
    ASSUME NEW H, NEW S, NEW C, NEW K, ListsOK(H, S, C, K), NEW x \in Member, x \notin ToSet(K)
    PROVE  /\ ListsOK(H, S, C, Append(K, x))
           /\ ToSet(Append(K, x)) = ToSet(K) \cup {x}
           /\ \A y, z : Earlier(y, z, K) => Earlier(y, z, Append(K, x))
           /\ \A y \in ToSet(K) : Earlier(y, x, Append(K, x))
<1> DEFINE G == Append(K, x)
<1>1. K \in Seq(Member) /\ Len(K) \in Nat
  BY DEF ListsOK
<1>2. /\ G \in Seq(Member) /\ Len(G) = Len(K) + 1 /\ G[Len(K) + 1] = x
      /\ \A j \in 1..Len(K) : G[j] = K[j]
  BY <1>1, AppendProperties
<1>3. ToSet(G) = ToSet(K) \cup {x} /\ ToSet(K) = {K[j] : j \in 1..Len(K)}
  BY <1>1, AppendedSet, SetIs
<1> HIDE DEF G
<1>4. Len(K) + 1 \in 1..Len(G) /\ (\A j \in 1..Len(K) : j \in 1..Len(G) /\ j < Len(K) + 1)
      /\ \A j \in 1..Len(G) : j \in 1..Len(K) \/ j = Len(K) + 1
  BY <1>1, <1>2
<1>5. \A y, z : Earlier(y, z, K) => Earlier(y, z, G)
  BY <1>2, <1>4 DEF Earlier
<1>6. \A y \in ToSet(K) : Earlier(y, x, G)
  BY <1>2, <1>3, <1>4 DEF Earlier
<1>7. \A i, j \in 1..Len(G) : G[i] = G[j] => i = j
  BY <1>2, <1>3, <1>4 DEF ListsOK
<1>8. InOrder(H, G)
  BY <1>5 DEF ListsOK, InOrder
<1>9. ListsOK(H, S, C, G)
  BY <1>2, <1>3, <1>7, <1>8 DEF ListsOK
<1> QED BY <1>3, <1>5, <1>6, <1>9 DEF G

\* A walk over the hooks goes on when a member becomes known ...
LEMMA WalkKnows ==
    ASSUME NEW H, NEW S, NEW C, NEW K, ListsOK(H, S, C, K), NEW x \in Member, x \notin ToSet(K),
           NEW w, HookWalk(w, H, K)
    PROVE  HookWalk(w, H, Append(K, x))
<1> DEFINE G == Append(K, x)
<1>1. ToSet(K) \subseteq ToSet(G) /\ \A y, z : Earlier(y, z, K) => Earlier(y, z, G)
  BY KnownGrows
<1> HIDE DEF G
<1>2. \A q : InOrder(q, K) => InOrder(q, G)
  BY <1>1 DEF InOrder
<1>3. HookWalk(w, H, G)
  BY <1>1, <1>2 DEF HookWalk
<1> QED BY <1>3 DEF G

\* ... is registered as a hook ...
LEMMA HookRegistered ==
    ASSUME NEW H, NEW S, NEW C, NEW K, ListsOK(H, S, C, K), NEW h \in Hooks, h \notin ToSet(K)
    PROVE  /\ ListsOK(Append(H, h), S, C, Append(K, h))
           /\ \A w \in Walk : HookWalk(w, H, K) => HookWalk(w, Append(H, h), Append(K, h))
<1> DEFINE G == Append(K, h)
           I == Append(H, h)
<1>1. h \in Member /\ H \in Seq(Hooks) /\ Len(H) \in Nat
  BY DEF Member, ListsOK
<1>2. /\ I \in Seq(Hooks) /\ Len(I) = Len(H) + 1 /\ I[Len(H) + 1] = h
      /\ \A j \in 1..Len(H) : I[j] = H[j]
  BY <1>1, AppendProperties
<1>3. ToSet(I) = ToSet(H) \cup {h} /\ ToSet(H) = {H[j] : j \in 1..Len(H)}
  BY <1>1, AppendedSet, SetIs
<1>4. /\ ListsOK(H, S, C, G) /\ ToSet(G) = ToSet(K) \cup {h}
      /\ \A y \in ToSet(K) : Earlier(y, h, G)
  BY <1>1, KnownGrows
<1>5. ASSUME NEW w, HookWalk(w, H, K) PROVE HookWalk(w, H, G)
  BY <1>1, <1>5, WalkKnows
<1> HIDE DEF G, I
<1>6. \A j \in 1..Len(I) : (j \in 1..Len(H) /\ I[j] = H[j]) \/ (j = Len(H) + 1 /\ I[j] = h)
  BY <1>1, <1>2
<1>7. InOrder(I, G)
  <2> SUFFICES ASSUME NEW i \in 1..Len(I), NEW j \in 1..Len(I), i < j PROVE Earlier(I[i], I[j], G)
    BY DEF InOrder
  <2>1. i \in 1..Len(H) /\ I[i] = H[i]
    BY <1>1, <1>2, <1>6
  <2>2. H[i] \in ToSet(K)
    BY <1>3, <2>1 DEF ListsOK
  <2> QED BY <1>4, <1>6, <2>1, <2>2 DEF ListsOK, InOrder
<1>8. ListsOK(I, S, C, G)
  BY <1>2, <1>3, <1>4, <1>7 DEF ListsOK
<1>9. ASSUME NEW w \in Walk, HookWalk(w, H, K) PROVE HookWalk(w, I, G)
  <2>1. HookWalk(w, H, G)
    BY <1>5, <1>9
  <2>2. ASSUME w.pc \in {"hooks", "hook"}, NEW x \in ToSet(w.asked), NEW j \in 1..Len(I), j > w.i
        PROVE  Earlier(x, I[j], G)
    <3>1. x \in ToSet(K)
      BY <1>9, <2>2 DEF HookWalk
    <3> QED BY <1>4, <1>6, <2>1, <2>2, <3>1 DEF HookWalk
  <2>3. ASSUME w.pc \in {"hooks", "hook"}, w.lost = {}
        PROVE  /\ w.i <= Len(I) /\ \A j \in 1..w.i : I[j] \in ToSet(w.asked)
               /\ \A j \in 1..Len(w.began) : j \in 1..Len(I) /\ I[j] = w.began[j]
    <3>1. /\ w.i <= Len(H) /\ \A j \in 1..w.i : H[j] \in ToSet(w.asked)
          /\ \A j \in 1..Len(w.began) : j \in 1..Len(H) /\ H[j] = w.began[j]
      BY <2>1, <2>3 DEF HookWalk
    <3>2. w.i \in Nat
      BY DEF Walk
    <3>3. w.i <= Len(I) /\ (\A j \in 1..w.i : j \in 1..Len(H)) /\ \A j \in 1..Len(H) : j \in 1..Len(I)
      BY <1>1, <1>2, <3>1, <3>2
    <3> QED BY <1>2, <3>1, <3>3
  <2> QED BY <2>1, <2>2, <2>3 DEF HookWalk
<1> QED BY <1>8, <1>9 DEF G, I

\* What a walk remembers of the members that left a list.
Lost(w, gone) == [w EXCEPT !.lost = IF w.pc \in Walking THEN @ \cup gone ELSE @]

LEMMA LostIs ==
    ASSUME NEW w \in Walk, NEW gone, gone \subseteq Member
    PROVE  LET k == Lost(w, gone) IN
           /\ k \in Walk /\ k.pc = w.pc /\ k.mode = w.mode /\ k.frames = w.frames /\ k.index = w.index
           /\ k.i = w.i /\ k.at = w.at /\ k.response = w.response /\ k.outcome = w.outcome
           /\ k.began = w.began /\ k.asked = w.asked /\ k.entered = w.entered
           /\ k.bodies = w.bodies /\ k.again = w.again /\ k.made = w.made /\ k.cut = w.cut
           /\ k.lost = IF w.pc \in Walking THEN w.lost \cup gone ELSE w.lost
<1> DEFINE lost == IF w.pc \in Walking THEN w.lost \cup gone ELSE w.lost
<1>1. Lost(w, gone) = [w EXCEPT !.lost = lost]
  BY DEF Lost
<1>2. lost \subseteq Member
  BY DEF Walk
<1> HIDE DEF lost
<1>3. LET k == [w EXCEPT !.lost = lost] IN
      /\ k \in Walk /\ k.pc = w.pc /\ k.mode = w.mode /\ k.frames = w.frames /\ k.index = w.index
      /\ k.i = w.i /\ k.at = w.at /\ k.response = w.response /\ k.outcome = w.outcome
      /\ k.began = w.began /\ k.asked = w.asked /\ k.entered = w.entered
      /\ k.bodies = w.bodies /\ k.again = w.again /\ k.made = w.made /\ k.cut = w.cut /\ k.lost = lost
  BY <1>2 DEF Walk
<1> QED BY <1>1, <1>3 DEF lost

LEMMA NoneLost == ASSUME NEW w \in Walk PROVE Lost(w, {}) = w
<1>1. Lost(w, {}) = [w EXCEPT !.lost = w.lost]
  BY DEF Lost
<1> QED BY <1>1 DEF Walk

\* Nothing is promised to a walk that lost a member but the order of what it asks.
LEMMA SomeLost ==
    ASSUME NEW w \in Walk, NEW gone, gone \subseteq Member, gone # {}
    PROVE  /\ \A S : StageWalk(Lost(w, gone), S)
           /\ \A H, K : HookWalk(w, H, K) => HookWalk(Lost(w, gone), H, K)
<1> DEFINE k == Lost(w, gone)
<1>1. /\ k.pc = w.pc /\ k.i = w.i /\ k.began = w.began /\ k.asked = w.asked /\ k.cut = w.cut
      /\ w.pc \in Walking => k.lost # {}
  BY LostIs
<1> HIDE DEF k
<1>2. \A S : StageWalk(k, S)
  BY <1>1 DEF StageWalk, Walking
<1>3. \A H, K : HookWalk(w, H, K) => HookWalk(k, H, K)
  BY <1>1 DEF HookWalk, Walking
<1> QED BY <1>2, <1>3 DEF k

\* A hook is unregistered: those behind it move up, in their order.
LEMMA HookRemoved ==
    ASSUME NEW H, NEW S, NEW C, NEW K, ListsOK(H, S, C, K), NEW i \in 1..Len(H)
    PROVE  /\ ListsOK(RemoveAt(H, i), S, C, K)
           /\ \A w \in Walk : HookWalk(w, H, K) => HookWalk(Lost(w, {H[i]}), RemoveAt(H, i), K)
<1> DEFINE I == RemoveAt(H, i)
           was(j) == IF j < i THEN j ELSE j + 1
<1>1. H \in Seq(Hooks) /\ Len(H) \in Nat /\ H[i] \in Member
  BY DEF ListsOK, Member
<1>2. I \in Seq(Hooks) /\ Len(I) = Len(H) - 1 /\ \A j \in 1..Len(H) - 1 : I[j] = H[was(j)]
  BY <1>1, RemoveAtIs
<1>3. /\ \A j \in 1..Len(H) - 1 : was(j) \in 1..Len(H) /\ was(j) >= j
      /\ \A j, l \in 1..Len(H) - 1 : j < l => was(j) < was(l)
  BY <1>1
<1> HIDE DEF I, was
<1>4. ToSet(I) = {I[j] : j \in 1..Len(I)} /\ ToSet(H) = {H[j] : j \in 1..Len(H)}
  BY <1>1, <1>2, SetIs
<1>5. InOrder(I, K)
  BY <1>2, <1>3 DEF ListsOK, InOrder
<1>6. ListsOK(I, S, C, K)
  BY <1>2, <1>3, <1>4, <1>5 DEF ListsOK
<1>7. ASSUME NEW w \in Walk, HookWalk(w, H, K) PROVE HookWalk(Lost(w, {H[i]}), I, K)
  <2> DEFINE k == Lost(w, {H[i]})
  <2>1. /\ k.pc = w.pc /\ k.i = w.i /\ k.began = w.began /\ k.asked = w.asked /\ k.cut = w.cut
        /\ w.pc \in Walking => k.lost # {}
    <3>1. {H[i]} \subseteq Member
      BY <1>1
    <3> QED BY <3>1, LostIs
  <2> HIDE DEF k
  <2>2. ASSUME w.pc \in {"hooks", "hook"}, NEW x \in ToSet(w.asked), NEW j \in 1..Len(I), j > w.i
        PROVE  Earlier(x, I[j], K)
    <3>1. was(j) \in 1..Len(H) /\ was(j) > w.i /\ I[j] = H[was(j)]
      <4>1. w.i \in Nat /\ j \in 1..Len(H) - 1
        BY <1>2 DEF Walk
      <4>2. was(j) \in 1..Len(H) /\ was(j) >= j
        BY <1>3, <4>1
      <4> QED BY <1>1, <1>2, <2>2, <4>1, <4>2
    <3> QED BY <1>7, <2>2, <3>1 DEF HookWalk
  <2>3. HookWalk(k, I, K)
    BY <1>7, <2>1, <2>2 DEF HookWalk, Walking
  <2> QED BY <2>3 DEF k
<1> QED BY <1>6, <1>7 DEF I

\* A stage is inserted: what was ahead of a walk is still ahead of it.
LEMMA StageInserted ==
    ASSUME NEW S \in Seq(Stages), NEW s \in Stages, NEW n \in 1..Len(S) + 1
    PROVE  /\ InsertAt(S, n, s) \in Seq(Stages)
           /\ \A w \in Walk : StageWalk(w, S) => StageWalk(w, InsertAt(S, n, s))
<1> DEFINE T == InsertAt(S, n, s)
           now(j) == IF j < n THEN j ELSE j + 1
<1>1. /\ T \in Seq(Stages) /\ Len(T) = Len(S) + 1 /\ Len(S) \in Nat
      /\ \A j \in 1..Len(S) : T[now(j)] = S[j]
  BY InsertAtIs
<1>2. \A j \in 1..Len(S) : now(j) \in 1..Len(S) + 1 /\ now(j) >= j
  BY <1>1
<1> HIDE DEF T, now
<1>3. ASSUME NEW w \in Walk, StageWalk(w, S) PROVE StageWalk(w, T)
  <2>1. w.i \in Nat
    BY DEF Walk
  <2>2. \A j \in 1..Len(S) : j > w.i => now(j) \in 1..Len(T) /\ now(j) > w.i
    BY <1>1, <1>2, <2>1
  <2> QED BY <1>1, <1>3, <2>2 DEF StageWalk
<1> QED BY <1>1, <1>3 DEF T

\* The stage of the knowledge base is replaced by one at the beginning.
LEMMA StageReplaced ==
    ASSUME NEW S \in Seq(Stages), NEW s \in Stages, NEW i \in 1..Len(S), S[i] \in KB
    PROVE  LET T == InsertAt(RemoveAt(S, i), 1, s)
           IN  T \in Seq(Stages) /\ \A w \in Walk : StageWalk(w, S) => StageWalk(w, T)
<1> DEFINE R == RemoveAt(S, i)
           T == InsertAt(R, 1, s)
           now(j) == IF j < i THEN j + 1 ELSE j
<1>1. /\ R \in Seq(Stages) /\ Len(R) = Len(S) - 1 /\ Len(S) \in Nat
      /\ \A j \in 1..Len(S) - 1 : R[j] = S[IF j < i THEN j ELSE j + 1]
  <2>1. /\ RemoveAt(S, i) \in Seq(Stages) /\ Len(RemoveAt(S, i)) = Len(S) - 1
        /\ \A j \in 1..Len(S) - 1 : RemoveAt(S, i)[j] = S[IF j < i THEN j ELSE j + 1]
    BY RemoveAtIs
  <2> QED BY <2>1
<1> HIDE DEF R
<1>2. /\ T \in Seq(Stages) /\ Len(T) = Len(S)
      /\ \A j \in 1..Len(R) : T[IF j < 1 THEN j ELSE j + 1] = R[j]
  <2>1. 1 \in 1..Len(R) + 1 /\ Len(R) + 1 = Len(S)
    BY <1>1
  <2> QED BY <1>1, <2>1, InsertAtIs
<1>3. \A j \in 1..Len(R) : T[j + 1] = R[j]
  <2>1. \A j \in 1..Len(R) : (IF j < 1 THEN j ELSE j + 1) = j + 1
    BY <1>1
  <2> HIDE DEF T
  <2> QED BY <1>2, <2>1
<1> HIDE DEF T
<1>4. ASSUME NEW j \in 1..Len(S), j # i
      PROVE  now(j) \in 1..Len(T) /\ now(j) >= j /\ T[now(j)] = S[j]
  <2> DEFINE m == IF j < i THEN j ELSE j - 1
  <2>1. m \in 1..Len(S) - 1 /\ (IF m < i THEN m ELSE m + 1) = j /\ m + 1 = now(j)
    BY <1>1, <1>4
  <2>2. now(j) \in 1..Len(S) /\ now(j) >= j
    BY <1>1, <1>4
  <2> HIDE DEF m, now
  <2>3. R[m] = S[j] /\ T[m + 1] = R[m]
    BY <1>1, <1>3, <2>1
  <2> QED BY <1>2, <2>1, <2>2, <2>3
<1> HIDE DEF now
<1>5. ASSUME NEW w \in Walk, StageWalk(w, S) PROVE StageWalk(w, T)
  <2>1. w.i \in Nat
    BY DEF Walk
  <2>2. \A j \in 1..Len(S) : j # i /\ j > w.i => now(j) \in 1..Len(T) /\ now(j) > w.i /\ T[now(j)] = S[j]
    <3> SUFFICES ASSUME NEW j \in 1..Len(S), j # i, j > w.i
                 PROVE  now(j) \in 1..Len(T) /\ now(j) > w.i /\ T[now(j)] = S[j]
      OBVIOUS
    <3>1. now(j) \in 1..Len(T) /\ now(j) >= j /\ T[now(j)] = S[j]
      BY <1>4
    <3> QED BY <1>2, <2>1, <3>1
  <2> QED BY <1>5, <2>2 DEF StageWalk
<1> QED BY <1>2, <1>5 DEF T, R

\* The chain only grows.
LEMMA ChainGrows ==
    ASSUME NEW C \in Seq(Middlewares), NEW m \in Middlewares
    PROVE  /\ Append(C, m) \in Seq(Middlewares)
           /\ \A w \in Walk : ChainWalk(w, C) => ChainWalk(w, Append(C, m))
<1> DEFINE D == Append(C, m)
<1>1. /\ D \in Seq(Middlewares) /\ Len(D) = Len(C) + 1 /\ Len(C) \in Nat
      /\ \A j \in 1..Len(C) : D[j] = C[j]
  BY AppendProperties
<1> HIDE DEF D
<1>2. ASSUME NEW w \in Walk, ChainWalk(w, C) PROVE ChainWalk(w, D)
  <2>1. w.index \in Nat /\ w.index <= Len(C)
    BY <1>2 DEF Walk, ChainWalk
  <2>2. w.index <= Len(D) /\ \A j \in 1..w.index : j \in 1..Len(C)
    BY <1>1, <2>1
  <2> QED BY <1>1, <1>2, <2>2 DEF ChainWalk
<1> QED BY <1>1, <1>2 DEF D

LEMMA Edited ==
    ASSUME ShellInv, NEW gone, gone \subseteq Member, Edit(gone),
           ListsOK(hooks', stages', chain', known'),
           \A w \in Walk : HookWalk(w, hooks, known) => HookWalk(Lost(w, gone), hooks', known'),
           \A w \in Walk : StageWalk(w, stages) => StageWalk(Lost(w, gone), stages'),
           \A w \in Walk : ChainWalk(w, chain) => ChainWalk(w, chain')
    PROVE  ShellInv'
<1>1. /\ walk' = [r \in Runs |-> Lost(walk[r], gone)] /\ left' = left
      /\ edits < MaxEdits /\ edits' = edits + 1
  BY DEF Edit, Lost
<1>2. edits' \in 0..MaxEdits /\ left' \subseteq Hooks
  BY <1>1, ShellAssumption DEF ShellInv
<1>3. ASSUME NEW r \in Runs PROVE RunOK(walk'[r], hooks', stages', chain', known') /\ walk'[r] \in Walk
  <2> DEFINE w == walk[r]
             k == Lost(w, gone)
  <2>1. w \in Walk /\ FramesOK(w) /\ HookWalk(w, hooks, known) /\ StageWalk(w, stages)
        /\ ChainWalk(w, chain)
    BY DEF ShellInv, RunOK
  <2>2. walk'[r] = k
    BY <1>1
  <2>3. HookWalk(k, hooks', known') /\ StageWalk(k, stages') /\ ChainWalk(w, chain')
    BY <2>1
  <2> HIDE DEF w
  <2>4. /\ k \in Walk /\ k.pc = w.pc /\ k.frames = w.frames /\ k.index = w.index /\ k.at = w.at
        /\ k.response = w.response /\ k.outcome = w.outcome /\ k.entered = w.entered
        /\ k.bodies = w.bodies /\ k.again = w.again /\ k.made = w.made
    BY <2>1, LostIs
  <2> HIDE DEF k
  <2>5. FramesOK(k)
    BY <2>1, <2>4 DEF FramesOK
  <2>6. ChainWalk(k, chain')
    BY <2>3, <2>4 DEF ChainWalk
  <2> QED BY <2>2, <2>3, <2>4, <2>5, <2>6 DEF RunOK
<1>4. walk' \in [Runs -> Walk]
  <2>1. walk' = [r \in Runs |-> walk'[r]]
    BY <1>1
  <2> QED BY <1>3, <2>1
<1> QED BY <1>2, <1>3, <1>4 DEF ShellInv

\* The first stage of the knowledge base is taken out, if there is one.
LEMMA FirstRemoved ==
    ASSUME NEW S, NEW s \in Seq(S)
    PROVE  \/ RemoveFirstMatch(s, LAMBDA x : x \in KB) = s
           \/ \E i \in 1..Len(s) : /\ s[i] \in KB
                                   /\ RemoveFirstMatch(s, LAMBDA x : x \in KB) = RemoveAt(s, i)
<1> DEFINE I == {i \in 1..Len(s) : s[i] \in KB}
<1>1. CASE I = {}
  BY <1>1 DEF RemoveFirstMatch
<1>2. CASE I # {}
  <2>1. SelectInSeq(s, LAMBDA x : x \in KB) = Min(I)
    BY <1>2 DEF SelectInSeq
  <2>2. RemoveFirstMatch(s, LAMBDA x : x \in KB) = RemoveAt(s, Min(I))
    BY <1>2, <2>1 DEF RemoveFirstMatch
  <2>3. Min(I) \in I
    <3>1. I \subseteq Nat
      OBVIOUS
    <3> HIDE DEF I
    <3>2. \E x \in I : \A y \in I : x <= y
      BY <1>2, <3>1, LeastNat
    <3> QED BY <3>2 DEF Min
  <2> HIDE DEF I
  <2>4. I \subseteq 1..Len(s) /\ \A i \in I : s[i] \in KB
    BY DEF I
  <2> QED BY <2>2, <2>3, <2>4
<1> QED BY <1>1, <1>2

\* What is taken out of a list is one of its members.
LEMMA OneRemoved ==
    ASSUME NEW S, NEW s \in Seq(S), NEW e \in ToSet(s)
    PROVE  \E i \in 1..Len(s) : s[i] = e /\ RemoveFirst(s, e) = RemoveAt(s, i)
<1> DEFINE I == {i \in 1..Len(s) : s[i] = e}
<1>1. \E i \in 1..Len(s) : s[i] = e
  BY SetIs
<1>2. I # {} /\ I \subseteq Nat
  BY <1>1
<1>3. SelectInSeq(s, LAMBDA x : x = e) = Min(I)
  BY <1>2 DEF SelectInSeq
<1>4. RemoveFirst(s, e) = RemoveAt(s, Min(I))
  BY <1>1, <1>3 DEF RemoveFirst
<1>5. Min(I) \in I
  <2> HIDE DEF I
  <2>1. \E x \in I : \A y \in I : x <= y
    BY <1>2, LeastNat
  <2> QED BY <2>1 DEF Min
<1> HIDE DEF I
<1>6. I \subseteq 1..Len(s) /\ \A i \in I : s[i] = e
  BY DEF I
<1> QED BY <1>4, <1>5, <1>6

LEMMA EditSteps == ASSUME ShellInv, Edits PROVE ShellInv'
<1>1. /\ ListsOK(hooks, stages, chain, known) /\ hooks \in Seq(Hooks) /\ stages \in Seq(Stages)
      /\ chain \in Seq(Middlewares)
  BY DEF ShellInv, ListsOK
<1>2. \A w \in Walk : Lost(w, {}) = w
  BY NoneLost
<1>3. ASSUME NEW x \in Member, Unknown(x), known' = Append(known, x), hooks' = hooks
      PROVE  /\ ListsOK(hooks, stages, chain, known')
             /\ \A w \in Walk : HookWalk(w, hooks, known) => HookWalk(Lost(w, {}), hooks', known')
  <2>1. x \notin ToSet(known)
    BY <1>3 DEF Unknown
  <2> QED BY <1>1, <1>2, <1>3, <2>1, KnownGrows, WalkKnows
<1>4. ASSUME NEW h \in Hooks, RegisterHook(h) PROVE ShellInv'
  <2>1. /\ h \notin ToSet(known) /\ Edit({}) /\ hooks' = Append(hooks, h) /\ known' = Append(known, h)
        /\ stages' = stages /\ chain' = chain
    BY <1>4 DEF RegisterHook, Unknown
  <2>2. /\ ListsOK(hooks', stages', chain', known')
        /\ \A w \in Walk : HookWalk(w, hooks, known) => HookWalk(Lost(w, {}), hooks', known')
    BY <1>1, <1>2, <2>1, HookRegistered
  <2>3. /\ \A w \in Walk : StageWalk(w, stages) => StageWalk(Lost(w, {}), stages')
        /\ \A w \in Walk : ChainWalk(w, chain) => ChainWalk(w, chain')
    BY <1>2, <2>1
  <2> QED BY <2>1, <2>2, <2>3, Edited
<1>5. ASSUME NEW h \in Hooks, UnregisterHook(h) PROVE ShellInv'
  <2>1. /\ h \in ToSet(hooks) /\ Edit({h}) /\ hooks' = RemoveFirst(hooks, h) /\ known' = known
        /\ stages' = stages /\ chain' = chain
    BY <1>5 DEF UnregisterHook
  <2>2. PICK i \in 1..Len(hooks) : hooks[i] = h /\ hooks' = RemoveAt(hooks, i)
    BY <1>1, <2>1, OneRemoved
  <2>3. /\ ListsOK(hooks', stages', chain', known')
        /\ \A w \in Walk : HookWalk(w, hooks, known) => HookWalk(Lost(w, {h}), hooks', known')
    BY <1>1, <2>1, <2>2, HookRemoved
  <2>4. {h} \subseteq Member /\ {h} # {}
    BY DEF Member
  <2>5. /\ \A w \in Walk : StageWalk(w, stages) => StageWalk(Lost(w, {h}), stages')
        /\ \A w \in Walk : ChainWalk(w, chain) => ChainWalk(w, chain')
    BY <2>1, <2>4, SomeLost
  <2> QED BY <2>1, <2>3, <2>4, <2>5, Edited
<1>6. ASSUME NEW s \in Stages, Edit({}), Unknown(s), known' = Append(known, s), UNCHANGED <<hooks, chain>>,
             stages' \in Seq(Stages), \A w \in Walk : StageWalk(w, stages) => StageWalk(w, stages')
      PROVE  ShellInv'
  <2>1. /\ ListsOK(hooks, stages, chain, known')
        /\ \A w \in Walk : HookWalk(w, hooks, known) => HookWalk(Lost(w, {}), hooks', known')
    BY <1>3, <1>6 DEF Member
  <2>2. ListsOK(hooks', stages', chain', known')
    BY <1>6, <2>1 DEF ListsOK
  <2>3. /\ \A w \in Walk : StageWalk(w, stages) => StageWalk(Lost(w, {}), stages')
        /\ \A w \in Walk : ChainWalk(w, chain) => ChainWalk(w, chain')
    BY <1>2, <1>6
  <2> QED BY <1>6, <2>1, <2>2, <2>3, Edited
<1>7. ASSUME NEW s \in Stages, NEW k \in 1..Len(stages) + 1, InsertStage(k, s) PROVE ShellInv'
  <2>1. /\ Edit({}) /\ Unknown(s) /\ known' = Append(known, s) /\ UNCHANGED <<hooks, chain>>
        /\ stages' = InsertAt(stages, k, s)
    BY <1>7 DEF InsertStage
  <2>2. stages' \in Seq(Stages) /\ \A w \in Walk : StageWalk(w, stages) => StageWalk(w, stages')
    BY <1>1, <2>1, StageInserted
  <2> QED BY <1>6, <2>1, <2>2
<1>8. ASSUME NEW s \in Stages, RemoveStage(s) PROVE ShellInv'
  <2>1. /\ s \in ToSet(stages) /\ Edit({s}) /\ stages' = RemoveFirst(stages, s) /\ known' = known
        /\ hooks' = hooks /\ chain' = chain
    BY <1>8 DEF RemoveStage
  <2>2. stages' \in Seq(Stages)
    BY <1>1, <2>1, OneRemoved, RemoveAtIs
  <2>3. ListsOK(hooks', stages', chain', known')
    BY <1>1, <2>1, <2>2 DEF ListsOK
  <2>4. {s} \subseteq Member /\ {s} # {}
    BY DEF Member
  <2>5. /\ \A w \in Walk : StageWalk(w, stages) => StageWalk(Lost(w, {s}), stages')
        /\ \A w \in Walk : HookWalk(w, hooks, known) => HookWalk(Lost(w, {s}), hooks', known')
        /\ \A w \in Walk : ChainWalk(w, chain) => ChainWalk(w, chain')
    BY <2>1, <2>4, SomeLost
  <2> QED BY <2>1, <2>3, <2>4, <2>5, Edited
<1>9. ASSUME NEW s \in Stages, SetKnowledgeBase(s) PROVE ShellInv'
  <2> DEFINE R == RemoveFirstMatch(stages, LAMBDA x : x \in KB)
  <2>1. /\ Edit({}) /\ Unknown(s) /\ known' = Append(known, s) /\ UNCHANGED <<hooks, chain>>
        /\ stages' = InsertAt(R, 1, s)
    BY <1>9 DEF SetKnowledgeBase
  <2>2. R = stages \/ \E i \in 1..Len(stages) : stages[i] \in KB /\ R = RemoveAt(stages, i)
    BY <1>1, FirstRemoved
  <2> HIDE DEF R
  <2>3. stages' \in Seq(Stages) /\ \A w \in Walk : StageWalk(w, stages) => StageWalk(w, stages')
    <3>1. CASE R = stages
      <4>1. 1 \in 1..Len(stages) + 1
        BY <1>1
      <4> QED BY <1>1, <2>1, <3>1, <4>1, StageInserted
    <3>2. CASE \E i \in 1..Len(stages) : stages[i] \in KB /\ R = RemoveAt(stages, i)
      <4>1. PICK i \in 1..Len(stages) : stages[i] \in KB /\ R = RemoveAt(stages, i)
        BY <3>2
      <4> QED BY <1>1, <2>1, <4>1, StageReplaced
    <3> QED BY <2>2, <3>1, <3>2
  <2> QED BY <1>6, <2>1, <2>3
<1>10. ASSUME NEW m \in Middlewares, Use(m) PROVE ShellInv'
  <2>1. /\ Edit({}) /\ Unknown(m) /\ known' = Append(known, m) /\ UNCHANGED <<hooks, stages>>
        /\ chain' = Append(chain, m)
    BY <1>10 DEF Use
  <2>2. /\ ListsOK(hooks, stages, chain, known')
        /\ \A w \in Walk : HookWalk(w, hooks, known) => HookWalk(Lost(w, {}), hooks', known')
    BY <1>3, <2>1 DEF Member
  <2>3. chain' \in Seq(Middlewares) /\ \A w \in Walk : ChainWalk(w, chain) => ChainWalk(w, chain')
    BY <1>1, <2>1, ChainGrows
  <2>4. ListsOK(hooks', stages', chain', known')
    BY <2>1, <2>2, <2>3 DEF ListsOK
  <2>5. \A w \in Walk : StageWalk(w, stages) => StageWalk(Lost(w, {}), stages')
    BY <1>2, <2>1
  <2> QED BY <2>1, <2>2, <2>3, <2>4, <2>5, Edited
<1> QED BY <1>4, <1>5, <1>7, <1>8, <1>9, <1>10 DEF Edits

LEMMA ShellStep == ShellInv /\ [ShellNext]_shellVars => ShellInv'
<1> SUFFICES ASSUME ShellInv, [ShellNext]_shellVars PROVE ShellInv'
  OBVIOUS
<1>1. CASE Edits
  BY <1>1, EditSteps
<1>2. ASSUME NEW r \in Runs, Advance(r) PROVE ShellInv'
  BY <1>2, ChainSteps, StageSteps, HookSteps DEF Advance
<1>3. CASE UNCHANGED shellVars
  <2>1. UNCHANGED <<hooks, stages, chain, walk, left, known, edits>>
    BY <1>3 DEF shellVars
  <2> QED BY <2>1 DEF ShellInv
<1> QED BY <1>1, <1>2, <1>3 DEF ShellNext

\* Every variable of a request and of the three lists keeps its type; a request is over
\* exactly when it has an outcome, and none answers without a response.
THEOREM ShellTypeCorrect == ShellSpec => []ShellTypeOK
BY ShellInitially, ShellStep, ShellInvImplies, PTL DEF ShellSpec

\* However the three lists change under any number of requests, no hook is handled twice or
\* out of order, and a walk that lost no member passes over none that stood there when it
\* began.
THEOREM AlwaysWalksComplete == ShellSpec => []WalksComplete
BY ShellInitially, ShellStep, ShellInvImplies, PTL DEF ShellSpec

\* However often a middleware calls next_handler, and whatever is added to the chain, a
\* request enters each middleware once at most, in their order, and its body at most once
\* more than next_handler was called again; and a response is that of the body or one
\* that a middleware has made instead.
THEOREM AlwaysMiddlewareNests == ShellSpec => []MiddlewareNests
BY ShellInitially, ShellStep, ShellInvImplies, PTL DEF ShellSpec

==============================================================================
