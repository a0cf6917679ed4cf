------------------------- MODULE AgentRequestProofs -------------------------
(***************************************************************************)
(* Proofs about AgentRequest, for any number of concurrent requests, users *)
(* and iterations, and every failure: a client is told once, an action is  *)
(* executed once, an answered request is one turn, and the cache holds     *)
(* what was said to its user.                                              *)
(***************************************************************************)
EXTENDS AgentRequest, FiniteSetTheorems, SequenceTheorems, TLAPS

Event == {"initialized", "cache_hit", "answer_start", "answer_chunk", "answer_end",
          "completed", "error"}

Has(q, e) == \E i \in DOMAIN q : q[i] = e
Once(q, e) == \A i, j \in DOMAIN q : q[i] = e /\ q[j] = e => i = j

Early == {"new", "open", "starting"}
Chosen == {"pipeline", "lookup", "show", "classify", "execute", "direct", "chain", "plan"}
Loop == {"think", "tool", "conclude", "respond"}
After == {"record", "remember", "ending"}

\* What the stream of the request k was sent, and whether it is finished: until
\* the answer goes out nothing but its first chunks, afterwards no error.
StreamOK(k, ev, fin) ==
    /\ k.mode = "run" => ev = << >>
    /\ k.mode = "stream" =>
         /\ k.pc # "pipeline"
         /\ Once(ev, "answer_start") /\ Once(ev, "answer_end")
         /\ ~Has(ev, "completed") \/ ~Has(ev, "error")
         /\ k.pc \in Early \cup Chosen \cup Loop =>
              /\ ~fin /\ ~Has(ev, "answer_end") /\ ~Has(ev, "completed") /\ ~Has(ev, "error")
              /\ Has(ev, "answer_start") => k.streamed
         /\ k.pc \in After \/ k.outcome \in {"ok", "error"} => fin
    /\ k.streamed => k.pc \in {"direct", "respond", "done"} \cup After

\* The actions q the request k has executed are those it remembers and the one
\* at hand, and fewer than its iterations.
ReactOK(k, q) ==
    /\ \A i, j \in DOMAIN q : q[i] = q[j] => i = j
    /\ q # << >> => Len(q) < MaxIterations
    /\ k.pc \in Early \cup Chosen => q = << >>
    /\ k.pc = "think" => Len(q) < k.iter /\ \A i \in DOMAIN q : q[i] \in k.acts
    /\ k.pc = "tool" =>
         /\ Len(q) <= k.iter /\ k.iter < MaxIterations
         /\ \A i \in DOMAIN q : q[i] \in k.acts \cup {k.tool}

\* The turns ts of the session hold none of the request r until it is recorded,
\* with its answer.
TurnOK(r, k, ts) ==
    /\ \A i, j \in DOMAIN ts : ts[i].by = r /\ ts[j].by = r => i = j
    /\ k.pc \notin {"remember", "ending", "done"} \/ k.outcome \in {"rejected", "aborted", "raised"} =>
         \A i \in DOMAIN ts : ts[i].by # r
    /\ k.pc \in {"remember", "ending"} \/ k.outcome = "ok" =>
         \E i \in DOMAIN ts : ts[i].by = r /\ ts[i].answer = k.answer
    /\ k.pc # "done" => k.outcome = "open"
    /\ k.pc \in {"show", "respond", "record"} => k.answer # NoAnswer

\* A request that goes on after it was started belongs to a greeted session, and
\* so does one that found turns.
GreetOK(k, g) ==
    /\ k.pc \notin {"new", "open", "starting", "done"} => k.user \in g
    /\ k.pc = "starting" /\ ~k.first => k.user \in g

Local(r) ==
    /\ StreamOK(req[r], events[r], r \in finished)
    /\ ReactOK(req[r], ran[r])
    /\ TurnOK(r, req[r], turns[req[r].user])
    /\ GreetOK(req[r], greeted)

IInv ==
    /\ TypeOK /\ events \in [Requests -> Seq(Event)]
    /\ \A r \in Requests : Local(r)
    /\ GreetedFirst /\ CacheOwn

-----------------------------------------------------------------------------
(* Streams.                                                                *)

LEMMA JoinedHas ==
    ASSUME NEW p \in Seq(Event), NEW q \in Seq(Event), NEW e
    PROVE  /\ p \o q \in Seq(Event)
           /\ Has(p \o q, e) <=> Has(p, e) \/ Has(q, e)
           /\ Once(p, e) /\ Once(q, e) /\ (~Has(p, e) \/ ~Has(q, e)) => Once(p \o q, e)
<1>1. /\ p \o q \in Seq(Event) /\ Len(p \o q) = Len(p) + Len(q)
      /\ \A i \in 1..(Len(p) + Len(q)) : (p \o q)[i] = IF i <= Len(p) THEN p[i] ELSE q[i - Len(p)]
  BY ConcatProperties
<1>2. /\ DOMAIN p = 1..Len(p) /\ DOMAIN q = 1..Len(q) /\ DOMAIN (p \o q) = 1..(Len(p) + Len(q))
      /\ Len(p) \in Nat /\ Len(q) \in Nat
  BY <1>1
<1> DEFINE pq == p \o q
<1> HIDE DEF pq
<1>3. \A i \in DOMAIN pq : \/ i \in DOMAIN p /\ pq[i] = p[i]
                           \/ i - Len(p) \in DOMAIN q /\ pq[i] = q[i - Len(p)] /\ i > Len(p)
  BY <1>1, <1>2 DEF pq
<1>4. \A i \in DOMAIN p : i \in DOMAIN pq /\ pq[i] = p[i]
  BY <1>1, <1>2 DEF pq
<1>5. \A i \in DOMAIN q : i + Len(p) \in DOMAIN pq /\ pq[i + Len(p)] = q[i]
  <2> SUFFICES ASSUME NEW i \in DOMAIN q PROVE i + Len(p) \in DOMAIN pq /\ pq[i + Len(p)] = q[i]
    OBVIOUS
  <2>1. i + Len(p) \in 1..(Len(p) + Len(q)) /\ ~(i + Len(p) <= Len(p)) /\ (i + Len(p)) - Len(p) = i
    BY <1>2
  <2> QED BY <1>1, <1>2, <2>1 DEF pq
<1>6. Has(pq, e) <=> Has(p, e) \/ Has(q, e)
  BY <1>3, <1>4, <1>5 DEF Has
<1>7. ASSUME Once(p, e), Once(q, e), ~Has(p, e) \/ ~Has(q, e) PROVE Once(pq, e)
  <2> SUFFICES ASSUME NEW i \in DOMAIN pq, NEW j \in DOMAIN pq, pq[i] = e, pq[j] = e PROVE i = j
    BY DEF Once
  <2>1. CASE i \in DOMAIN p /\ pq[i] = p[i] /\ j \in DOMAIN p /\ pq[j] = p[j]
    BY <2>1, <1>7 DEF Once
  <2>2. CASE /\ i - Len(p) \in DOMAIN q /\ pq[i] = q[i - Len(p)]
             /\ j - Len(p) \in DOMAIN q /\ pq[j] = q[j - Len(p)]
    <3>1. i - Len(p) = j - Len(p)
      BY <2>2, <1>7 DEF Once
    <3>2. i \in Int /\ j \in Int
      BY <1>2 DEF pq
    <3> QED BY <3>1, <3>2, <1>2
  <2> QED BY <1>3, <1>7, <2>1, <2>2 DEF Has
<1> QED BY <1>1, <1>6, <1>7 DEF pq

LEMMA ShortStreams ==
    /\ Shown \in Seq(Event) /\ <<"initialized">> \in Seq(Event) /\ <<"cache_hit">> \in Seq(Event)
    /\ <<"answer_start", "answer_chunk">> \in Seq(Event) /\ <<"answer_end">> \in Seq(Event)
    /\ <<"completed">> \in Seq(Event) /\ <<"error">> \in Seq(Event)
  BY DEF Shown, Event

LEMMA OneEvent ==
    \A e, x : (Has(<<x>>, e) <=> e = x) /\ Once(<<x>>, e)
  BY DEF Has, Once

LEMMA ShownOnce ==
    /\ \A e : Has(Shown, e) <=> e \in {"answer_start", "answer_chunk", "answer_end"}
    /\ \A e : Once(Shown, e)
<1>1. DOMAIN Shown = 1..3
  BY DEF Shown
<1>2. Shown[1] = "answer_start" /\ Shown[2] = "answer_chunk" /\ Shown[3] = "answer_end"
  BY DEF Shown
<1>3. \A i \in 1..3 : i = 1 \/ i = 2 \/ i = 3
  OBVIOUS
<1>4. 1 \in 1..3 /\ 2 \in 1..3 /\ 3 \in 1..3
  OBVIOUS
<1> HIDE DEF Shown
<1>5. \A e : Has(Shown, e) <=> e \in {"answer_start", "answer_chunk", "answer_end"}
  BY <1>1, <1>2, <1>3, <1>4 DEF Has
<1>6. \A e : Once(Shown, e)
  BY <1>1, <1>2, <1>3 DEF Once
<1> QED BY <1>5, <1>6

LEMMA ChunksOnce ==
    /\ \A e : Has(<<"answer_start", "answer_chunk">>, e) <=> e \in {"answer_start", "answer_chunk"}
    /\ \A e : Once(<<"answer_start", "answer_chunk">>, e)
<1> DEFINE c == <<"answer_start", "answer_chunk">>
<1>1. DOMAIN c = 1..2 /\ c[1] = "answer_start" /\ c[2] = "answer_chunk"
  OBVIOUS
<1>2. /\ \A i \in 1..2 : i = 1 \/ i = 2
      /\ 1 \in 1..2 /\ 2 \in 1..2
  OBVIOUS
<1> HIDE DEF c
<1>3. \A e : Has(c, e) <=> e \in {"answer_start", "answer_chunk"}
  BY <1>1, <1>2 DEF Has
<1>4. \A e : Once(c, e)
  BY <1>1, <1>2 DEF Once
<1> QED BY <1>3, <1>4 DEF c

-----------------------------------------------------------------------------
(* The step of one request.                                                *)

\* A request r that becomes k, with what it has sent and executed, keeps the
\* invariant when these fit together: of what the requests share it adds at most
\* a turn of its own, greets a user and caches what was said to him.
LEMMA StepInv ==
    ASSUME IInv, NEW r \in Requests,
           NEW k \in Request, k.user = req[r].user, req' = [req EXCEPT ![r] = k],
           NEW ev \in Seq(Event), events' = [events EXCEPT ![r] = ev],
           finished' = finished \/ finished' = finished \cup {r},
           NEW q \in Seq(Action), ran' = [ran EXCEPT ![r] = q],
           greeted' \subseteq User, greeted \subseteq greeted',
           \/ turns' = turns
           \/ \E a \in Answer :
                /\ turns' = [turns EXCEPT ![k.user] = Append(turns[k.user], [by |-> r, answer |-> a])]
                /\ k.user \in greeted,
           cache' \in [Key -> Answer \cup {NoAnswer}],
           \A c \in Key : \/ cache'[c] \in {NoAnswer, cache[c]}
                         \/ \E i \in DOMAIN turns[c[1]] : turns[c[1]][i].answer = cache'[c],
           scenCache' \in [User -> Answer \cup {NoAnswer}], clears' = clears,
           StreamOK(k, ev, r \in finished'), ReactOK(k, q),
           TurnOK(r, k, turns'[k.user]), GreetOK(k, greeted')
    PROVE  IInv'
<1> USE DEF IInv
<1>1. /\ req \in [Requests -> Request] /\ events \in [Requests -> Seq(Event)]
      /\ ran \in [Requests -> Seq(Action)] /\ turns \in [User -> Seq(Turn)]
      /\ finished \subseteq Requests /\ greeted \subseteq User /\ clears \in 0..MaxClears
  BY DEF TypeOK
<1>2. /\ req' \in [Requests -> Request] /\ req'[r] = k
      /\ \A t \in Requests : t # r => req'[t] = req[t]
  BY <1>1
<1>3. /\ events' \in [Requests -> Seq(Event)] /\ events'[r] = ev
      /\ \A t \in Requests : t # r => events'[t] = events[t]
  BY <1>1
<1>4. /\ ran' \in [Requests -> Seq(Action)] /\ ran'[r] = q
      /\ \A t \in Requests : t # r => ran'[t] = ran[t]
  BY <1>1
<1>5. finished' \subseteq Requests /\ \A t \in Requests : t # r => (t \in finished' <=> t \in finished)
  BY <1>1
<1>6. k.user \in User
  BY DEF Request
\* The turns of a session: those there were, and one of r perhaps.
<1>7. /\ turns' \in [User -> Seq(Turn)]
      /\ \A u \in User : \A i \in DOMAIN turns[u] : i \in DOMAIN turns'[u] /\ turns'[u][i] = turns[u][i]
      /\ \A u \in User : \A i \in DOMAIN turns'[u] :
            i \in DOMAIN turns[u] \/ (u = k.user /\ turns'[u][i].by = r /\ u \in greeted)
  <2>1. CASE turns' = turns
    BY <1>1, <2>1
  <2>2. ASSUME NEW a \in Answer, k.user \in greeted,
               turns' = [turns EXCEPT ![k.user] = Append(turns[k.user], [by |-> r, answer |-> a])]
        PROVE  <1>7!:
    <3> DEFINE b  == [by |-> r, answer |-> a]
               ts == turns[k.user]
    <3>1. b \in Turn /\ b.by = r
      BY DEF Turn
    <3>2. ts \in Seq(Turn)
      BY <1>1, <1>6
    <3> HIDE DEF b, ts
    <3>3. /\ Append(ts, b) \in Seq(Turn) /\ DOMAIN ts = 1..Len(ts) /\ Len(ts) \in Nat
          /\ DOMAIN Append(ts, b) = 1..(Len(ts) + 1)
          /\ \A i \in 1..Len(ts) : Append(ts, b)[i] = ts[i]
          /\ Append(ts, b)[Len(ts) + 1] = b
      BY <3>1, <3>2
    <3>4. turns' = [turns EXCEPT ![k.user] = Append(ts, b)]
      BY <2>2 DEF b, ts
    <3>5. /\ turns' \in [User -> Seq(Turn)] /\ turns'[k.user] = Append(ts, b)
          /\ \A u \in User : u # k.user => turns'[u] = turns[u]
      BY <1>1, <1>6, <3>3, <3>4
    <3>6. \A i \in 1..(Len(ts) + 1) : i \in 1..Len(ts) \/ i = Len(ts) + 1
      BY <3>3
    <3>7. \A i \in 1..Len(ts) : i \in 1..(Len(ts) + 1)
      BY <3>3
    <3>8. \A i \in DOMAIN turns[k.user] :
            i \in DOMAIN turns'[k.user] /\ turns'[k.user][i] = turns[k.user][i]
      BY <3>3, <3>5, <3>7 DEF ts
    <3>9. \A i \in DOMAIN turns'[k.user] : i \in DOMAIN turns[k.user] \/ turns'[k.user][i].by = r
      BY <3>1, <3>3, <3>5, <3>6 DEF ts
    <3> QED BY <2>2, <3>5, <3>8, <3>9
  <2> QED BY <2>1, <2>2
<1>8. TypeOK'
  <2>1. Turn' = Turn /\ Request' = Request /\ Answer' = Answer /\ Key' = Key
    BY DEF Turn, Request, Answer, Key, Verdicts
  <2> QED BY <1>1, <1>2, <1>4, <1>5, <1>7, <2>1 DEF TypeOK
<1>9. \A t \in Requests : Local(t)'
  <2> SUFFICES ASSUME NEW t \in Requests
               PROVE  /\ StreamOK(req'[t], events'[t], t \in finished')
                      /\ ReactOK(req'[t], ran'[t])
                      /\ TurnOK(t, req'[t], turns'[req'[t].user])
                      /\ GreetOK(req'[t], greeted')
    BY DEF Local, StreamOK, ReactOK, TurnOK, GreetOK, Once, Has
  <2>1. CASE t = r
    BY <2>1, <1>2, <1>3, <1>4
  <2>2. CASE t # r
    <3>1. Local(t) /\ req[t].user \in User
      BY <1>1 DEF Request
    <3>2. TurnOK(t, req[t], turns'[req[t].user])
      <4> DEFINE u == req[t].user
      <4>1. /\ \A i \in DOMAIN turns[u] : i \in DOMAIN turns'[u] /\ turns'[u][i] = turns[u][i]
            /\ \A i \in DOMAIN turns'[u] : i \in DOMAIN turns[u] \/ turns'[u][i].by # t
        BY <2>2, <3>1, <1>7
      <4>2. TurnOK(t, req[t], turns[u])
        BY <3>1 DEF Local
      <4> HIDE DEF u
      <4>3. /\ \A i, j \in DOMAIN turns'[u] : turns'[u][i].by = t /\ turns'[u][j].by = t => i = j
            /\ (\A i \in DOMAIN turns[u] : turns[u][i].by # t) =>
                 \A i \in DOMAIN turns'[u] : turns'[u][i].by # t
            /\ (\E i \in DOMAIN turns[u] : turns[u][i].by = t /\ turns[u][i].answer = req[t].answer) =>
                 \E i \in DOMAIN turns'[u] : turns'[u][i].by = t /\ turns'[u][i].answer = req[t].answer
        BY <4>1, <4>2 DEF TurnOK
      <4> QED BY <4>2, <4>3 DEF TurnOK, u
    <3>3. GreetOK(req[t], greeted')
      BY <3>1 DEF Local, GreetOK
    <3> QED BY <2>2, <3>1, <3>2, <3>3, <1>2, <1>3, <1>4, <1>5 DEF Local
  <2> QED BY <2>1, <2>2
<1>10. GreetedFirst'
  <2> SUFFICES ASSUME NEW u \in User, turns'[u] # << >> PROVE u \in greeted'
    BY DEF GreetedFirst
  <2>1. turns[u] \in Seq(Turn) /\ turns'[u] \in Seq(Turn)
    BY <1>1, <1>7
  <2>2. Len(turns'[u]) # 0 /\ Len(turns'[u]) \in Nat /\ DOMAIN turns'[u] = 1..Len(turns'[u])
    BY <2>1, EmptySeq
  <2>3. 1 \in DOMAIN turns'[u]
    BY <2>2
  <2>4. 1 \in DOMAIN turns[u] \/ u \in greeted
    BY <1>7, <2>3
  <2>5. 1 \notin DOMAIN << >>
    OBVIOUS
  <2>6. turns[u] # << >> \/ u \in greeted
    BY <2>4, <2>5
  <2> QED BY <2>6 DEF GreetedFirst
<1>11. CacheOwn'
  <2> SUFFICES ASSUME NEW c \in Key, cache'[c] # NoAnswer
               PROVE  \E i \in DOMAIN turns'[c[1]] : turns'[c[1]][i].answer = cache'[c]
    BY DEF CacheOwn, Key
  <2>1. c[1] \in User
    BY DEF Key
  <2>2. \E i \in DOMAIN turns[c[1]] : turns[c[1]][i].answer = cache'[c]
    BY DEF CacheOwn
  <2> QED BY <1>7, <2>1, <2>2
<1> QED BY <1>3, <1>8, <1>9, <1>10, <1>11

\* The step of a request that changes nothing but the request.
LEMMA OwnStep ==
    ASSUME IInv, NEW r \in Requests,
           NEW k \in Request, k.user = req[r].user, req' = [req EXCEPT ![r] = k],
           UNCHANGED <<shared, stream, ran>>,
           StreamOK(k, events[r], r \in finished), ReactOK(k, ran[r]),
           TurnOK(r, k, turns[k.user]), GreetOK(k, greeted)
    PROVE  IInv'
<1>1. /\ events[r] \in Seq(Event) /\ events' = [events EXCEPT ![r] = events[r]]
      /\ ran[r] \in Seq(Action) /\ ran' = [ran EXCEPT ![r] = ran[r]]
      /\ UNCHANGED <<turns, cache, scenCache, greeted, clears, finished>>
  BY DEF IInv, TypeOK, shared, stream
<1>2. /\ greeted' \subseteq User /\ cache' \in [Key -> Answer \cup {NoAnswer}]
      /\ scenCache' \in [User -> Answer \cup {NoAnswer}]
  BY <1>1 DEF IInv, TypeOK
<1>3. StreamOK(k, events[r], r \in finished') /\ TurnOK(r, k, turns'[k.user]) /\ GreetOK(k, greeted')
  BY <1>1
<1> HIDE DEF shared, stream
<1> QED BY <1>1, <1>2, <1>3, StepInv

\* What holds of the request r, piece by piece.
LEMMA RequestFacts ==
    ASSUME IInv, NEW r \in Requests
    PROVE  /\ req[r] \in Request /\ req[r].user \in User /\ req[r].query \in Query
           /\ req[r].mode \in {"run", "stream"}
           /\ req[r].acts \subseteq Action /\ req[r].tool \in Action \cup {"none"}
           /\ req[r].iter \in 0..MaxIterations /\ req[r].answer \in Answer \cup {NoAnswer}
           /\ MaxIterations \in Nat /\ events[r] \in Seq(Event) /\ ran[r] \in Seq(Action)
           /\ StreamOK(req[r], events[r], r \in finished)
           /\ ReactOK(req[r], ran[r])
           /\ TurnOK(r, req[r], turns[req[r].user])
           /\ GreetOK(req[r], greeted)
<1>1. req[r] \in Request /\ ran[r] \in Seq(Action) /\ events[r] \in Seq(Event)
  BY DEF IInv, TypeOK
<1>2. /\ req[r].user \in User /\ req[r].query \in Query /\ req[r].mode \in {"run", "stream"}
      /\ req[r].acts \subseteq Action /\ req[r].tool \in Action \cup {"none"}
      /\ req[r].iter \in 0..MaxIterations /\ req[r].answer \in Answer \cup {NoAnswer}
  BY <1>1 DEF Request
<1>3. Local(r)
  BY DEF IInv
<1> QED BY <1>1, <1>2, <1>3, RequestAssumption DEF Local

LEMMA Req == IInv => req \in [Requests -> Request]
  BY DEF IInv, TypeOK

LEMMA FreshIs == \A r \in Requests : \A kind \in {"fresh", "apology", "stage", "hook", "error"} :
                    Fresh(r, kind) \in Answer
  BY DEF Fresh, Answer

-----------------------------------------------------------------------------
LEMMA InitInv == Init => IInv
<1> SUFFICES ASSUME Init PROVE IInv
  OBVIOUS
<1>1. \A r \in Requests : \E u \in User, q \in Query, m \in {"run", "stream"} : req[r] = New(u, q, m)
  BY DEF Init
<1>2. \A u \in User, q \in Query, m \in {"run", "stream"} : New(u, q, m) \in Request
  BY RequestAssumption DEF New, Request
<1>3. \A r \in Requests :
        /\ req[r].pc = "new" /\ req[r].outcome = "open" /\ req[r].streamed = FALSE
        /\ req[r] \in Request /\ req[r].user \in User
  <2> SUFFICES ASSUME NEW r \in Requests
               PROVE  /\ req[r].pc = "new" /\ req[r].outcome = "open" /\ req[r].streamed = FALSE
                      /\ req[r] \in Request /\ req[r].user \in User
    OBVIOUS
  <2>1. PICK u \in User, q \in Query, m \in {"run", "stream"} : req[r] = New(u, q, m)
    BY <1>1
  <2>2. New(u, q, m).pc = "new" /\ New(u, q, m).outcome = "open" /\ New(u, q, m).streamed = FALSE
        /\ New(u, q, m).user = u
    BY DEF New
  <2> QED BY <2>1, <2>2, <1>2
<1>4. /\ \A r \in Requests : events[r] = << >> /\ ran[r] = << >> /\ r \notin finished
      /\ \A u \in User : turns[u] = << >>
      /\ \A k \in Key : cache[k] = NoAnswer
  BY DEF Init
<1>5. TypeOK
  <2>1. req \in [Requests -> Request]
    BY <1>3 DEF Init
  <2> QED BY <2>1, RequestAssumption DEF Init, TypeOK
<1>6. events \in [Requests -> Seq(Event)]
  BY DEF Init
<1>7. \A r \in Requests : Local(r)
  <2> SUFFICES ASSUME NEW r \in Requests PROVE Local(r)
    OBVIOUS
  <2>1. StreamOK(req[r], events[r], r \in finished)
    BY <1>3, <1>4 DEF StreamOK, Early, Chosen, Loop, After, Has, Once
  <2>2. ReactOK(req[r], ran[r])
    BY <1>3, <1>4 DEF ReactOK, Early
  <2>3. TurnOK(r, req[r], turns[req[r].user])
    BY <1>3, <1>4 DEF TurnOK
  <2>4. GreetOK(req[r], greeted)
    BY <1>3 DEF GreetOK
  <2> QED BY <2>1, <2>2, <2>3, <2>4 DEF Local
<1>8. GreetedFirst /\ CacheOwn
  BY <1>4 DEF GreetedFirst, CacheOwn
<1> QED BY <1>5, <1>6, <1>7, <1>8 DEF IInv

-----------------------------------------------------------------------------
(* Up to the classification.                                               *)

LEMMA OpeningSteps ==
    ASSUME IInv, NEW r \in Requests,
           Accept(r) \/ Reject(r) \/ OpenRaises(r) \/ Open(r)
    PROVE  IInv'
<1>1. PICK k :
        /\ req' = [req EXCEPT ![r] = k]
        /\ \/ req[r].pc = "new" /\ k = [req[r] EXCEPT !.pc = "open"]
           \/ req[r].pc = "new" /\ k = [req[r] EXCEPT !.pc = "done", !.outcome = "rejected"]
           \/ req[r].pc = "open" /\ k = [req[r] EXCEPT !.pc = "done", !.outcome = "raised"]
           \/ req[r].pc = "open" /\ k = [req[r] EXCEPT !.pc = "starting",
                                                     !.first = turns[req[r].user] = << >>]
  <2>1. CASE Accept(r)
    BY <2>1 DEF Accept, At, Goto
  <2>2. CASE Reject(r)
    <3>1. req' = [req EXCEPT ![r] = [req[r] EXCEPT !.pc = "done", !.outcome = "rejected"]]
      BY <2>2, Req DEF Reject, Done
    <3> QED BY <2>2, <3>1 DEF Reject, At
  <2>3. CASE OpenRaises(r)
    <3>1. req' = [req EXCEPT ![r] = [req[r] EXCEPT !.pc = "done", !.outcome = "raised"]]
      BY <2>3, Req DEF OpenRaises, Done
    <3> QED BY <2>3, <3>1 DEF OpenRaises, At
  <2>4. CASE Open(r)
    <3>1. req' = [req EXCEPT ![r] = [req[r] EXCEPT !.pc = "starting",
                                                  !.first = turns[req[r].user] = << >>]]
      BY <2>4, Req DEF Open
    <3> QED BY <2>4, <3>1 DEF Open, At
  <2> QED BY <2>1, <2>2, <2>3, <2>4
<1>2. UNCHANGED <<shared, stream, ran>>
  BY DEF Accept, Reject, OpenRaises, Open
<1>3. req[r] \in Request
  BY RequestFacts
<1>4. /\ k \in Request /\ k.user = req[r].user /\ k.mode = req[r].mode /\ k.streamed = req[r].streamed
      /\ k.answer = req[r].answer
      /\ req[r].pc \in {"new", "open"}
      /\ \/ k.pc \in {"open", "starting"} /\ k.outcome = req[r].outcome
         \/ k.pc = "done" /\ k.outcome \in {"rejected", "raised"}
      /\ k.pc = "starting" => k.first = (turns[req[r].user] = << >>)
  <2>1. k \in Request
    <3>1. CASE k = [req[r] EXCEPT !.pc = "open"]
      BY <1>3, <3>1, ZenonT(40) DEF Request
    <3>2. CASE k = [req[r] EXCEPT !.pc = "done", !.outcome = "rejected"]
      BY <1>3, <3>2, ZenonT(40) DEF Request
    <3>3. CASE k = [req[r] EXCEPT !.pc = "done", !.outcome = "raised"]
      BY <1>3, <3>3, ZenonT(40) DEF Request
    <3>4. CASE k = [req[r] EXCEPT !.pc = "starting", !.first = turns[req[r].user] = << >>]
      BY <1>3, <3>4, ZenonT(40) DEF Request
    <3> QED BY <1>1, <3>1, <3>2, <3>3, <3>4
  <2>2. k.user = req[r].user /\ k.mode = req[r].mode /\ k.streamed = req[r].streamed /\ k.answer = req[r].answer
    BY <1>1, <1>3, ZenonT(40) DEF Request
  <2>3. /\ \/ k.pc \in {"open", "starting"} /\ k.outcome = req[r].outcome
           \/ k.pc = "done" /\ k.outcome \in {"rejected", "raised"}
        /\ k.pc = "starting" => k.first = (turns[req[r].user] = << >>)
    BY <1>1, <1>3, ZenonT(40) DEF Request
  <2> QED BY <1>1, <2>1, <2>2, <2>3
<1>5. StreamOK(k, events[r], r \in finished)
  BY <1>4, RequestFacts DEF StreamOK, Early, Chosen, Loop, After
<1>6. ReactOK(k, ran[r])
  BY <1>4, RequestFacts DEF ReactOK, Early, Chosen
<1>7. TurnOK(r, k, turns[k.user])
  <2>1. TurnOK(r, req[r], turns[req[r].user])
    BY RequestFacts
  <2> QED BY <1>4, <2>1 DEF TurnOK
<1>8. GreetOK(k, greeted)
  BY <1>4, RequestFacts DEF GreetOK, IInv, GreetedFirst
<1> QED BY <1>1, <1>2, <1>4, <1>5, <1>6, <1>7, <1>8, OwnStep

\* A step from the start of a request to its answer that tells nobody anything.
LEMMA QuietStep ==
    ASSUME IInv, NEW r \in Requests, req[r].pc \in Chosen \cup Loop,
           NEW k \in Request, req' = [req EXCEPT ![r] = k], UNCHANGED <<shared, stream, ran>>,
           k.user = req[r].user, k.mode = req[r].mode, k.streamed = req[r].streamed,
           k.outcome = req[r].outcome,
           \/ k.pc \in (Chosen \cup Loop) \ {"pipeline"}
           \/ k.pc = "record" /\ k.mode = "run",
           k.streamed => k.pc \in {"direct", "respond"},
           k.pc \in {"show", "respond", "record"} => k.answer # NoAnswer,
           ReactOK(k, ran[r])
    PROVE  IInv'
<1>1. StreamOK(k, events[r], r \in finished)
  <2>1. StreamOK(req[r], events[r], r \in finished)
    BY RequestFacts
  <2>2. TurnOK(r, req[r], turns[req[r].user])
    BY RequestFacts
  <2>3. k.outcome \notin {"ok", "error"}
    BY <2>2 DEF TurnOK, Chosen, Loop
  <2>4. k.pc \notin After \/ k.mode = "run"
    BY DEF After, Chosen, Loop
  <2> QED BY <2>1, <2>3, <2>4 DEF StreamOK
<1>2. TurnOK(r, k, turns[k.user])
  <2>1. TurnOK(r, req[r], turns[req[r].user])
    BY RequestFacts
  <2> QED BY <2>1 DEF TurnOK, Chosen, Loop
<1>3. GreetOK(k, greeted)
  <2>1. GreetOK(req[r], greeted)
    BY RequestFacts
  <2> QED BY <2>1 DEF GreetOK, Chosen, Loop
<1> QED BY <1>1, <1>2, <1>3, OwnStep

\* Whoever leaves the loop, or has not entered it, has executed what he had.
LEMMA StillReactOK ==
    ASSUME IInv, NEW r \in Requests, NEW k, k.pc \notin {"think", "tool"} \cup Early,
           k.pc \in Chosen => req[r].pc \in Chosen
    PROVE  ReactOK(k, ran[r])
<1>1. ReactOK(req[r], ran[r])
  BY RequestFacts
<1> QED BY <1>1 DEF ReactOK

LEMMA ChoosingSteps ==
    ASSUME IInv, NEW r \in Requests,
           StageAnswers(r) \/ CheckCache(r) \/ HookStops(r)
             \/ \E verdict \in Verdicts : Classified(r, verdict)
    PROVE  IInv'
<1> DEFINE Becomes(k) ==
             /\ req' = [req EXCEPT ![r] = k] /\ req[r].pc \in {"pipeline", "lookup", "classify"}
             /\ \/ /\ req[r].pc \in {"pipeline", "classify"} \/ req[r].mode = "run"
                   /\ req[r].pc = "classify" => req[r].mode = "run"
                   /\ \E a \in Answer : k = [req[r] EXCEPT !.answer = a, !.pc = "record"]
                \/ \E a \in Answer : k = [req[r] EXCEPT !.answer = a, !.pc = "show"]
                \/ k = [req[r] EXCEPT !.pc = "classify"]
                \/ \E verdict \in Verdicts : k = [req[r] EXCEPT !.pc = "execute", !.level = verdict]
<1>1. PICK k : Becomes(k)
  <2>1. CASE StageAnswers(r)
    <3>1. req' = [req EXCEPT ![r] = [req[r] EXCEPT !.answer = Fresh(r, "stage"), !.pc = "record"]]
      BY <2>1, Req DEF StageAnswers, Answers
    <3> QED BY <2>1, <3>1, FreshIs DEF StageAnswers, At
  <2>2. CASE CheckCache(r)
    <3>1. req[r].pc \in {"pipeline", "lookup"}
      BY <2>2 DEF CheckCache
    <3>2. CASE CacheOn /\ cache[KeyOf(r)] # NoAnswer
      <4> DEFINE a == cache[KeyOf(r)]
      <4>1. a \in Answer
        <5>1. KeyOf(r) \in Key
          BY RequestFacts DEF KeyOf, Key
        <5> QED BY <3>2, <5>1 DEF IInv, TypeOK
      <4>2. Answers(r, a, IF req[r].mode = "run" THEN "record" ELSE "show")
        BY <2>2, <3>2 DEF CheckCache
      <4> HIDE DEF a
      <4>3. CASE req[r].mode = "run"
        <5>1. req' = [req EXCEPT ![r] = [req[r] EXCEPT !.answer = a, !.pc = "record"]]
          BY <4>2, <4>3, Req DEF Answers
        <5> QED BY <3>1, <4>1, <4>3, <5>1
      <4>4. CASE req[r].mode # "run"
        <5>1. req' = [req EXCEPT ![r] = [req[r] EXCEPT !.answer = a, !.pc = "show"]]
          BY <4>2, <4>4, Req DEF Answers
        <5> QED BY <3>1, <4>1, <5>1
      <4> QED BY <4>3, <4>4
    <3>3. CASE ~(CacheOn /\ cache[KeyOf(r)] # NoAnswer)
      BY <2>2, <3>1, <3>3 DEF CheckCache, Goto
    <3> QED BY <3>2, <3>3
  <2>3. CASE HookStops(r)
    <3>1. req' = [req EXCEPT ![r] = [req[r] EXCEPT !.answer = Fresh(r, "hook"), !.pc = "record"]]
      BY <2>3, Req DEF HookStops, Answers
    <3> QED BY <2>3, <3>1, FreshIs DEF HookStops, At
  <2>4. ASSUME NEW verdict \in Verdicts, Classified(r, verdict) PROVE \E k : Becomes(k)
    <3>1. req' = [req EXCEPT ![r] = [req[r] EXCEPT !.pc = "execute", !.level = verdict]]
      BY <2>4, Req DEF Classified
    <3> QED BY <2>4, <3>1 DEF Classified, At
  <2> QED BY <2>1, <2>2, <2>3, <2>4
<1>2. UNCHANGED <<shared, stream, ran>>
  BY DEF StageAnswers, CheckCache, HookStops, Classified
<1>3. req[r] \in Request /\ StreamOK(req[r], events[r], r \in finished)
  BY RequestFacts
<1>4. /\ req[r].mode \in {"run", "stream"} /\ ~req[r].streamed
      /\ req[r].pc = "pipeline" => req[r].mode = "run"
  <2>1. req[r].mode \in {"run", "stream"}
    BY RequestFacts
  <2> QED BY <1>1, <1>3, <2>1 DEF StreamOK, After
<1>5. /\ k \in Request /\ k.user = req[r].user /\ k.mode = req[r].mode /\ k.streamed = req[r].streamed
      /\ k.outcome = req[r].outcome
      /\ k.pc \in {"show", "classify", "execute"} \/ (k.pc = "record" /\ k.mode = "run")
      /\ k.pc \in {"show", "record"} => k.answer \in Answer
  <2>1. k \in Request
    <3>1. CASE \E a \in Answer : k = [req[r] EXCEPT !.answer = a, !.pc = "record"]
      BY <1>3, <3>1, ZenonT(40) DEF Request
    <3>2. CASE \E a \in Answer : k = [req[r] EXCEPT !.answer = a, !.pc = "show"]
      BY <1>3, <3>2, ZenonT(40) DEF Request
    <3>3. CASE k = [req[r] EXCEPT !.pc = "classify"]
      BY <1>3, <3>3, ZenonT(40) DEF Request
    <3>4. CASE \E verdict \in Verdicts : k = [req[r] EXCEPT !.pc = "execute", !.level = verdict]
      BY <1>3, <3>4, ZenonT(40) DEF Request
    <3> QED BY <1>1, <3>1, <3>2, <3>3, <3>4
  <2>2. /\ k.user = req[r].user /\ k.mode = req[r].mode /\ k.streamed = req[r].streamed
        /\ k.outcome = req[r].outcome
    BY <1>1, <1>3, ZenonT(40) DEF Request
  <2>3. /\ k.pc \in {"show", "classify", "execute"} \/ (k.pc = "record" /\ k.mode = "run")
        /\ k.pc \in {"show", "record"} => k.answer \in Answer
    BY <1>1, <1>3, <1>4, <2>2, ZenonT(40) DEF Request
  <2> QED BY <2>1, <2>2, <2>3
<1>6. ReactOK(k, ran[r])
  BY <1>1, <1>5, StillReactOK DEF Early, Chosen
<1> QED BY <1>1, <1>2, <1>4, <1>5, <1>6, QuietStep, RequestAssumption DEF Chosen, Loop

\* An aborted pipeline, and the end of an answered request.
LEMMA ClosingSteps ==
    ASSUME IInv, NEW r \in Requests, StageAborts(r) \/ End(r)
    PROVE  IInv'
<1> DEFINE k(outcome) == [req[r] EXCEPT !.pc = "done", !.outcome = outcome]
<1>1. PICK o \in {"aborted", "ok"} :
        /\ req' = [req EXCEPT ![r] = k(o)]
        /\ o = "aborted" => req[r].pc = "pipeline"
        /\ o = "ok" => req[r].pc = "ending"
  <2>1. CASE StageAborts(r)
    <3>1. req' = [req EXCEPT ![r] = k("aborted")]
      BY <2>1, Req DEF StageAborts, Done
    <3> QED BY <2>1, <3>1 DEF StageAborts, At
  <2>2. CASE End(r)
    <3>1. req' = [req EXCEPT ![r] = k("ok")]
      BY <2>2, Req DEF End, Done
    <3> QED BY <2>2, <3>1 DEF End, At
  <2> QED BY <2>1, <2>2
<1>2. UNCHANGED <<shared, stream, ran>>
  BY DEF StageAborts, End
<1>3. req[r] \in Request
  BY RequestFacts
<1>4. /\ k(o) \in Request /\ k(o).user = req[r].user /\ k(o).mode = req[r].mode
      /\ k(o).streamed = req[r].streamed /\ k(o).answer = req[r].answer
      /\ k(o).pc = "done" /\ k(o).outcome = o
  BY <1>3 DEF Request
<1> HIDE DEF k
<1>5. StreamOK(k(o), events[r], r \in finished)
  <2>1. StreamOK(req[r], events[r], r \in finished) /\ req[r].mode \in {"run", "stream"}
    BY RequestFacts
  <2>2. req[r].pc = "pipeline" => req[r].mode = "run"
    BY <2>1 DEF StreamOK
  <2> QED BY <1>1, <1>4, <2>1, <2>2 DEF StreamOK, Early, Chosen, Loop, After
<1>6. ReactOK(k(o), ran[r])
  BY <1>4, StillReactOK DEF Early, Chosen
<1>7. TurnOK(r, k(o), turns[k(o).user])
  <2>1. TurnOK(r, req[r], turns[req[r].user])
    BY RequestFacts
  <2> QED BY <1>1, <1>4, <2>1 DEF TurnOK
<1>8. GreetOK(k(o), greeted)
  BY <1>4 DEF GreetOK
<1> QED BY <1>1, <1>2, <1>4, <1>5, <1>6, <1>7, <1>8, OwnStep

-----------------------------------------------------------------------------
(* Execution.                                                              *)

\* The first thought, or the end without one.
LEMMA BeginReactFacts ==
    ASSUME IInv, NEW r \in Requests, BeginReact(r), req[r].pc \in {"execute", "plan"},
           UNCHANGED <<shared, stream, ran>>
    PROVE  IInv'
<1> DEFINE k == [req[r] EXCEPT !.iter = IF MaxIterations > 0 THEN 1 ELSE 0,
                               !.pc = IF MaxIterations > 0 THEN "think" ELSE "conclude"]
<1>1. req' = [req EXCEPT ![r] = k]
  BY Req DEF BeginReact
<1>2. req[r] \in Request /\ MaxIterations \in Nat
  BY RequestFacts
<1>3. /\ k \in Request /\ k.user = req[r].user /\ k.mode = req[r].mode /\ k.streamed = req[r].streamed
      /\ k.outcome = req[r].outcome
      /\ k.pc \in {"think", "conclude"} /\ (k.pc = "think" => k.iter = 1)
  <2>1. (IF MaxIterations > 0 THEN 1 ELSE 0) \in 0..MaxIterations
    BY <1>2
  <2>2. (IF MaxIterations > 0 THEN "think" ELSE "conclude") \in {"think", "conclude"}
    OBVIOUS
  <2>3. (IF MaxIterations > 0 THEN "think" ELSE "conclude") = "think" =>
           (IF MaxIterations > 0 THEN 1 ELSE 0) = 1
    OBVIOUS
  <2> DEFINE it == IF MaxIterations > 0 THEN 1 ELSE 0
             pc == IF MaxIterations > 0 THEN "think" ELSE "conclude"
  <2> HIDE DEF it, pc
  <2>4. [req[r] EXCEPT !.iter = it, !.pc = pc] = k
    BY DEF it, pc
  <2>5. it \in 0..MaxIterations /\ pc \in {"think", "conclude"} /\ (pc = "think" => it = 1)
    BY <2>1, <2>2, <2>3 DEF it, pc
  <2> HIDE DEF k
  <2>6. /\ [req[r] EXCEPT !.iter = it, !.pc = pc] \in Request
        /\ [req[r] EXCEPT !.iter = it, !.pc = pc].user = req[r].user
        /\ [req[r] EXCEPT !.iter = it, !.pc = pc].mode = req[r].mode
        /\ [req[r] EXCEPT !.iter = it, !.pc = pc].streamed = req[r].streamed
        /\ [req[r] EXCEPT !.iter = it, !.pc = pc].outcome = req[r].outcome
        /\ [req[r] EXCEPT !.iter = it, !.pc = pc].pc = pc
        /\ [req[r] EXCEPT !.iter = it, !.pc = pc].iter = it
    BY <1>2, <2>5 DEF Request
  <2> QED BY <2>4, <2>5, <2>6
<1> HIDE DEF k
<1>4. ran[r] = << >>
  <2>1. ReactOK(req[r], ran[r])
    BY RequestFacts
  <2> QED BY <2>1 DEF ReactOK, Chosen
<1>5. ReactOK(k, ran[r])
  BY <1>3, <1>4 DEF ReactOK, Early, Chosen
<1>6. ~req[r].streamed
  <2>1. StreamOK(req[r], events[r], r \in finished)
    BY RequestFacts
  <2> QED BY <2>1 DEF StreamOK, After
<1> QED BY <1>1, <1>3, <1>5, <1>6, QuietStep DEF Chosen, Loop

LEMMA ExecutionSteps ==
    ASSUME IInv, NEW r \in Requests,
           \/ \E filled \in BOOLEAN : Execute(r, filled)
           \/ DirectAnswers(r) \/ ChainFails(r) \/ PlanAnswers(r) \/ PlanFallsBack(r)
           \/ ToolAnswers(r) \/ Conclude(r) \/ ThinkFinal(r)
    PROVE  IInv'
<1> DEFINE Becomes(k) ==
             /\ req' = [req EXCEPT ![r] = k]
             /\ \/ /\ req[r].pc = "execute"
                   /\ \E pc \in {"direct", "chain", "plan"} : k = [req[r] EXCEPT !.pc = pc]
                \/ /\ req[r].pc = "think" /\ k = [req[r] EXCEPT !.pc = "conclude"]
                \/ /\ req[r].pc \in {"execute", "direct", "chain", "plan", "tool", "conclude"}
                   /\ \E a \in Answer : k = [req[r] EXCEPT !.answer = a, !.pc = "respond"]
<1>1. UNCHANGED <<shared, stream, ran>>
  BY DEF Execute, DirectAnswers, ChainFails, PlanAnswers, PlanFallsBack, ToolAnswers, Conclude, ThinkFinal
<1>2. \/ BeginReact(r) /\ req[r].pc \in {"execute", "plan"}
      \/ \E k : Becomes(k)
  <2>1. ASSUME NEW filled \in BOOLEAN, Execute(r, filled)
        PROVE  \/ BeginReact(r) /\ req[r].pc \in {"execute", "plan"}
               \/ \E k : Becomes(k)
    <3>1. req[r].pc = "execute"
      BY <2>1 DEF Execute, At
    <3>2. \/ \E pc \in {"direct", "chain", "plan"} : Goto(r, pc)
          \/ BeginReact(r)
          \/ scenCache[req[r].user] # NoAnswer /\ Answers(r, scenCache[req[r].user], "respond")
      BY <2>1 DEF Execute
    <3>3. ASSUME NEW pc \in {"direct", "chain", "plan"}, Goto(r, pc) PROVE \E k : Becomes(k)
      BY <3>1, <3>3 DEF Goto
    <3>4. CASE scenCache[req[r].user] # NoAnswer /\ Answers(r, scenCache[req[r].user], "respond")
      <4>1. scenCache[req[r].user] \in Answer
        BY <3>4, RequestFacts DEF IInv, TypeOK
      <4>2. req' = [req EXCEPT ![r] = [req[r] EXCEPT !.answer = scenCache[req[r].user], !.pc = "respond"]]
        BY <3>4, Req DEF Answers
      <4> QED BY <3>1, <4>1, <4>2
    <3> QED BY <3>1, <3>2, <3>3, <3>4
  <2>2. CASE PlanFallsBack(r)
    BY <2>2 DEF PlanFallsBack, At
  <2>3. CASE ThinkFinal(r)
    BY <2>3 DEF ThinkFinal, At, Goto
  <2>4. CASE DirectAnswers(r) \/ ChainFails(r) \/ PlanAnswers(r) \/ ToolAnswers(r) \/ Conclude(r)
    <3>1. PICK kind \in {"fresh", "apology"} : Answers(r, Fresh(r, kind), "respond")
      BY <2>4 DEF DirectAnswers, ChainFails, PlanAnswers, ToolAnswers, Conclude
    <3>2. req[r].pc \in {"execute", "direct", "chain", "plan", "tool", "conclude"}
      BY <2>4 DEF DirectAnswers, ChainFails, PlanAnswers, ToolAnswers, Conclude, At
    <3>3. req' = [req EXCEPT ![r] = [req[r] EXCEPT !.answer = Fresh(r, kind), !.pc = "respond"]]
      BY <3>1, Req DEF Answers
    <3> QED BY <3>2, <3>3, FreshIs
  <2> QED BY <2>1, <2>2, <2>3, <2>4
<1>3. CASE BeginReact(r) /\ req[r].pc \in {"execute", "plan"}
  BY <1>1, <1>3, BeginReactFacts
<1>4. ASSUME NEW k, Becomes(k) PROVE IInv'
  <2>1. req[r] \in Request /\ StreamOK(req[r], events[r], r \in finished)
    BY RequestFacts
  <2>2. /\ k \in Request /\ k.user = req[r].user /\ k.mode = req[r].mode /\ k.streamed = req[r].streamed
        /\ k.outcome = req[r].outcome
        /\ k.pc \in {"direct", "chain", "plan", "conclude", "respond"}
        /\ k.pc \in {"direct", "chain", "plan"} => req[r].pc = "execute"
        /\ k.pc = "respond" => k.answer \in Answer
    BY <1>4, <2>1 DEF Request
  <2>3. /\ req[r].pc \in {"execute", "direct", "chain", "plan", "think", "tool", "conclude"}
        /\ k.pc = "conclude" => req[r].pc = "think"
    BY <1>4, <2>1 DEF Request
  <2>4. ReactOK(k, ran[r])
    BY <2>2, StillReactOK DEF Early, Chosen
  <2>5. k.streamed => k.pc \in {"direct", "respond"}
    BY <2>1, <2>2, <2>3 DEF StreamOK, After
  <2>6. req' = [req EXCEPT ![r] = k]
    BY <1>4
  <2> HIDE DEF Becomes
  <2> QED BY <1>1, <2>2, <2>3, <2>4, <2>5, <2>6, QuietStep, RequestAssumption DEF Chosen, Loop
<1> HIDE DEF Becomes
<1> QED BY <1>2, <1>3, <1>4

-----------------------------------------------------------------------------
(* The loop.                                                               *)

LEMMA NextIterationFacts ==
    ASSUME IInv, NEW r \in Requests, NextIteration(r), req[r].pc \in {"think", "tool"},
           req[r].iter < MaxIterations, UNCHANGED <<shared, stream, ran>>
    PROVE  IInv'
<1> DEFINE acts == IF req[r].tool = "none" THEN req[r].acts ELSE req[r].acts \cup {req[r].tool}
           k    == [req[r] EXCEPT !.pc = "think", !.tool = "none", !.iter = req[r].iter + 1, !.acts = acts]
<1>1. req' = [req EXCEPT ![r] = k]
  BY Req DEF NextIteration
<1>2. /\ req[r] \in Request /\ MaxIterations \in Nat /\ req[r].iter \in 0..MaxIterations
      /\ req[r].tool \in Action \cup {"none"} /\ req[r].acts \subseteq Action
      /\ ran[r] \in Seq(Action) /\ ReactOK(req[r], ran[r])
      /\ StreamOK(req[r], events[r], r \in finished)
  BY RequestFacts
<1>3. acts \subseteq Action /\ req[r].acts \subseteq acts /\ (req[r].tool # "none" => req[r].tool \in acts)
  BY <1>2
<1>4. req[r].iter + 1 \in 0..MaxIterations
  BY <1>2
<1> HIDE DEF acts
<1>5. /\ k \in Request /\ k.user = req[r].user /\ k.mode = req[r].mode /\ k.streamed = req[r].streamed
      /\ k.outcome = req[r].outcome
      /\ k.pc = "think" /\ k.iter = req[r].iter + 1 /\ k.acts = acts
  BY <1>2, <1>3, <1>4 DEF Request
<1> HIDE DEF k
<1>6. ReactOK(k, ran[r])
  <2>1. Len(ran[r]) \in Nat /\ \A i \in DOMAIN ran[r] : ran[r][i] \in Action
    BY <1>2
  <2>2. Len(ran[r]) <= req[r].iter /\ \A i \in DOMAIN ran[r] : ran[r][i] \in req[r].acts \cup {req[r].tool}
    BY <1>2, <2>1 DEF ReactOK
  <2>3. Len(ran[r]) < k.iter
    BY <1>2, <1>5, <2>1, <2>2
  <2>4. \A i \in DOMAIN ran[r] : ran[r][i] \in k.acts
    BY <1>3, <1>5, <2>1, <2>2, RequestAssumption
  <2>5. k.pc \notin Early \cup Chosen \cup {"tool"}
    BY <1>5 DEF Early, Chosen
  <2> HIDE DEF IInv
  <2> QED BY <1>2, <2>3, <2>4, <2>5 DEF ReactOK
<1>7. ~req[r].streamed
  BY <1>2 DEF StreamOK, After
<1> QED BY <1>1, <1>5, <1>6, <1>7, QuietStep DEF Chosen, Loop

LEMMA LoopSteps ==
    ASSUME IInv, NEW r \in Requests, ThinkNothing(r) \/ ToolObserved(r)
    PROVE  IInv'
<1>1. UNCHANGED <<shared, stream, ran>>
  BY DEF ThinkNothing, ToolObserved
<1>2. /\ req[r] \in Request /\ MaxIterations \in Nat /\ req[r].iter \in 0..MaxIterations
      /\ ReactOK(req[r], ran[r]) /\ StreamOK(req[r], events[r], r \in finished)
  BY RequestFacts
<1>3. CASE ThinkNothing(r) /\ LastIteration(r)
  <2> DEFINE k == [req[r] EXCEPT !.pc = "conclude"]
  <2>1. req' = [req EXCEPT ![r] = k] /\ req[r].pc = "think"
    BY <1>3 DEF ThinkNothing, At, Goto
  <2>2. /\ k \in Request /\ k.user = req[r].user /\ k.mode = req[r].mode /\ k.streamed = req[r].streamed
        /\ k.outcome = req[r].outcome /\ k.pc = "conclude"
    BY <1>2 DEF Request
  <2> HIDE DEF k
  <2>3. ReactOK(k, ran[r])
    BY <2>2, StillReactOK DEF Early, Chosen
  <2>4. ~req[r].streamed
    BY <1>2, <2>1 DEF StreamOK, After
  <2> QED BY <1>1, <2>1, <2>2, <2>3, <2>4, QuietStep DEF Chosen, Loop
<1>4. CASE ThinkNothing(r) /\ ~LastIteration(r)
  <2>1. req[r].pc = "think" /\ NextIteration(r) /\ req[r].iter < MaxIterations
    BY <1>2, <1>4 DEF ThinkNothing, At, LastIteration
  <2> QED BY <1>1, <2>1, NextIterationFacts
<1>5. CASE ToolObserved(r)
  <2>1. req[r].pc = "tool" /\ NextIteration(r) /\ req[r].iter < MaxIterations
    BY <1>2, <1>5 DEF ToolObserved, At, ReactOK
  <2> QED BY <1>1, <2>1, NextIterationFacts
<1> QED BY <1>3, <1>4, <1>5

LEMMA ThinkActionStep ==
    ASSUME IInv, NEW r \in Requests, NEW a \in Action, ThinkAction(r, a)
    PROVE  IInv'
<1>1. UNCHANGED <<shared, stream>> /\ req[r].pc = "think"
  BY DEF ThinkAction, At
<1>2. /\ req[r] \in Request /\ MaxIterations \in Nat /\ req[r].iter \in 0..MaxIterations
      /\ req[r].acts \subseteq Action
      /\ ran[r] \in Seq(Action) /\ events[r] \in Seq(Event) /\ ReactOK(req[r], ran[r])
      /\ StreamOK(req[r], events[r], r \in finished)
      /\ TurnOK(r, req[r], turns[req[r].user]) /\ GreetOK(req[r], greeted)
  BY RequestFacts
<1>3. CASE LastIteration(r) \/ a \in Executed(r)
  <2> DEFINE k == [req[r] EXCEPT !.pc = "conclude"]
  <2>1. req' = [req EXCEPT ![r] = k] /\ UNCHANGED <<shared, stream, ran>>
    BY <1>1, <1>3 DEF ThinkAction, Goto
  <2>2. /\ k \in Request /\ k.user = req[r].user /\ k.mode = req[r].mode /\ k.streamed = req[r].streamed
        /\ k.outcome = req[r].outcome /\ k.pc = "conclude"
    BY <1>2 DEF Request
  <2> HIDE DEF k
  <2>3. ReactOK(k, ran[r])
    BY <2>2, StillReactOK DEF Early, Chosen
  <2>4. ~req[r].streamed
    BY <1>1, <1>2 DEF StreamOK, After
  <2> QED BY <1>1, <2>1, <2>2, <2>3, <2>4, QuietStep DEF Chosen, Loop
<1>4. CASE ~(LastIteration(r) \/ a \in Executed(r))
  <2> DEFINE k == [req[r] EXCEPT !.pc = "tool", !.tool = a]
             q == Append(ran[r], a)
  <2>1. /\ req' = [req EXCEPT ![r] = k] /\ ran' = [ran EXCEPT ![r] = q]
        /\ req[r].iter < MaxIterations /\ a \notin req[r].acts
    <3>1. req' = [req EXCEPT ![r] = k]
      BY <1>4, Req DEF ThinkAction
    <3> QED BY <1>2, <1>4, <3>1 DEF ThinkAction, LastIteration, Executed
  <2>2. /\ k \in Request /\ k.user = req[r].user /\ k.mode = req[r].mode /\ k.streamed = req[r].streamed
        /\ k.outcome = req[r].outcome /\ k.pc = "tool" /\ k.tool = a /\ k.acts = req[r].acts
        /\ k.iter = req[r].iter
    BY <1>2 DEF Request
  <2>3. /\ q \in Seq(Action) /\ Len(q) = Len(ran[r]) + 1 /\ Len(ran[r]) \in Nat /\ DOMAIN q = 1..Len(q)
        /\ q[Len(q)] = a /\ \A i \in DOMAIN q : i # Len(q) => i \in DOMAIN ran[r] /\ q[i] = ran[r][i]
    BY <1>2
  <2>4. /\ Len(ran[r]) < req[r].iter /\ \A i \in DOMAIN ran[r] : ran[r][i] \in req[r].acts
        /\ \A i, j \in DOMAIN ran[r] : ran[r][i] = ran[r][j] => i = j
    BY <1>1, <1>2 DEF ReactOK
  <2> HIDE DEF k, q
  <2>5. ReactOK(k, q)
    <3>1. Len(q) <= k.iter /\ Len(q) < MaxIterations /\ k.iter < MaxIterations
      BY <1>2, <2>1, <2>2, <2>3, <2>4
    <3>2. \A i \in DOMAIN q : q[i] \in k.acts \cup {k.tool}
      BY <2>2, <2>3, <2>4
    <3>3. \A i, j \in DOMAIN q : q[i] = q[j] => i = j
      BY <2>1, <2>3, <2>4
    <3> QED BY <2>2, <3>1, <3>2, <3>3 DEF ReactOK, Early, Chosen
  <2>6. StreamOK(k, events[r], r \in finished)
    BY <1>1, <1>2, <2>2 DEF StreamOK, Early, Chosen, Loop, After
  <2>7. TurnOK(r, k, turns[k.user])
    BY <1>1, <1>2, <2>2 DEF TurnOK
  <2>8. GreetOK(k, greeted)
    BY <1>1, <1>2, <2>2 DEF GreetOK
  <2>9. /\ events' = [events EXCEPT ![r] = events[r]]
        /\ UNCHANGED <<turns, cache, scenCache, greeted, clears, finished>>
        /\ greeted' \subseteq User /\ cache' \in [Key -> Answer \cup {NoAnswer}]
        /\ scenCache' \in [User -> Answer \cup {NoAnswer}]
    BY <1>1 DEF IInv, TypeOK, shared, stream
  <2>10. StreamOK(k, events[r], r \in finished') /\ TurnOK(r, k, turns'[k.user]) /\ GreetOK(k, greeted')
    BY <2>6, <2>7, <2>8, <2>9
  <2> HIDE DEF shared, stream
  <2> QED BY <1>2, <2>1, <2>2, <2>3, <2>5, <2>9, <2>10, StepInv
<1> QED BY <1>3, <1>4

-----------------------------------------------------------------------------
(* What is sent.                                                           *)

Sending(r, es) ==
    IF r \in finished \/ req[r].mode = "run" THEN events[r] ELSE events[r] \o es

LEMMA SendFacts ==
    ASSUME IInv, NEW r \in Requests, NEW es \in Seq(Event), Send(r, es)
    PROVE  /\ Sending(r, es) \in Seq(Event)
           /\ events' = [events EXCEPT ![r] = Sending(r, es)]
<1>1. events \in [Requests -> Seq(Event)] /\ events[r] \in Seq(Event)
  BY DEF IInv
<1>2. events[r] \o es \in Seq(Event)
  BY <1>1, ConcatProperties
<1>3. CASE r \in finished \/ req[r].mode = "run"
  BY <1>1, <1>3 DEF Send, Sending
<1>4. CASE ~(r \in finished \/ req[r].mode = "run")
  BY <1>1, <1>2, <1>4 DEF Send, Sending
<1> QED BY <1>3, <1>4

LEMMA FinishFacts ==
    ASSUME NEW r \in Requests, FinishStream(r)
    PROVE  /\ finished' = finished \/ finished' = finished \cup {r}
           /\ req[r].mode = "stream" => r \in finished'
  BY DEF FinishStream

LEMMA StartStep ==
    ASSUME IInv, NEW r \in Requests, Start(r)
    PROVE  IInv'
<1> DEFINE pc == IF req[r].mode = "run" THEN "pipeline" ELSE "lookup"
           k  == [req[r] EXCEPT !.pc = pc]
           ev == Sending(r, <<"initialized">>)
<1>1. /\ req[r].pc = "starting" /\ req' = [req EXCEPT ![r] = k] /\ Send(r, <<"initialized">>)
      /\ greeted' = (IF req[r].first THEN greeted \cup {req[r].user} ELSE greeted)
      /\ UNCHANGED <<turns, cache, scenCache, clears, finished, ran>>
  BY DEF Start, At, Goto
<1>2. /\ req[r] \in Request /\ req[r].mode \in {"run", "stream"} /\ req[r].user \in User
      /\ ran[r] \in Seq(Action) /\ events[r] \in Seq(Event) /\ ReactOK(req[r], ran[r])
      /\ StreamOK(req[r], events[r], r \in finished)
      /\ TurnOK(r, req[r], turns[req[r].user]) /\ GreetOK(req[r], greeted)
  BY RequestFacts
<1>3. pc \in {"pipeline", "lookup"} /\ (pc = "pipeline" => req[r].mode = "run")
  OBVIOUS
<1> HIDE DEF pc
<1>4. /\ k \in Request /\ k.user = req[r].user /\ k.mode = req[r].mode /\ k.streamed = req[r].streamed
      /\ k.outcome = req[r].outcome /\ k.pc = pc
  BY <1>2, <1>3 DEF Request
<1>5. ev \in Seq(Event) /\ events' = [events EXCEPT ![r] = ev]
  BY <1>1, ShortStreams, SendFacts
<1> HIDE DEF k, ev
<1>6. StreamOK(k, ev, r \in finished)
  <2>1. CASE req[r].mode = "run"
    <3>1. ~req[r].streamed /\ events[r] = << >>
      BY <1>1, <1>2, <2>1 DEF StreamOK, After
    <3>2. ev = << >>
      BY <2>1, <3>1 DEF ev, Sending
    <3> QED BY <1>4, <2>1, <3>1, <3>2 DEF StreamOK
  <2>2. CASE req[r].mode = "stream"
    <3>1. /\ r \notin finished /\ ~Has(events[r], "answer_end") /\ ~Has(events[r], "completed")
          /\ ~Has(events[r], "error") /\ ~Has(events[r], "answer_start") /\ ~req[r].streamed
          /\ Once(events[r], "answer_start") /\ Once(events[r], "answer_end")
      BY <1>1, <1>2, <2>2 DEF StreamOK, Early, After
    <3>2. ev = events[r] \o <<"initialized">>
      BY <2>2, <3>1 DEF ev, Sending
    <3>3. \A e : Has(ev, e) <=> Has(events[r], e) \/ e = "initialized"
      BY <1>2, <3>2, JoinedHas, ShortStreams, OneEvent
    <3>4. Once(ev, "answer_start") /\ Once(ev, "answer_end")
      BY <3>1, <3>3 DEF Has, Once
    <3>5. k.outcome = "open"
      BY <1>1, <1>2, <1>4 DEF TurnOK
    <3> QED BY <1>3, <1>4, <2>2, <3>1, <3>3, <3>4, <3>5 DEF StreamOK, Early, Chosen, Loop, After
  <2> QED BY <1>2, <2>1, <2>2
<1>7. ReactOK(k, ran[r])
  BY <1>1, <1>2, <1>3, <1>4 DEF ReactOK, Early, Chosen
<1>8. TurnOK(r, k, turns'[k.user])
  BY <1>1, <1>2, <1>3, <1>4 DEF TurnOK
<1>9. GreetOK(k, greeted')
  BY <1>1, <1>2, <1>3, <1>4 DEF GreetOK
<1>10. /\ ran' = [ran EXCEPT ![r] = ran[r]]
       /\ greeted' \subseteq User /\ greeted \subseteq greeted'
       /\ cache' \in [Key -> Answer \cup {NoAnswer}]
       /\ scenCache' \in [User -> Answer \cup {NoAnswer}]
  BY <1>1, <1>2 DEF IInv, TypeOK
<1>11. StreamOK(k, ev, r \in finished')
  BY <1>1, <1>6
<1> QED BY <1>1, <1>2, <1>4, <1>5, <1>7, <1>8, <1>9, <1>10, <1>11, StepInv

\* A stream that is not finished has been sent at most the first chunks.
LEMMA OpenStream ==
    ASSUME IInv, NEW r \in Requests, req[r].pc \in Early \cup Chosen \cup Loop, req[r].mode = "stream"
    PROVE  /\ r \notin finished
           /\ ~Has(events[r], "answer_end") /\ ~Has(events[r], "completed") /\ ~Has(events[r], "error")
           /\ Has(events[r], "answer_start") => req[r].streamed
           /\ Once(events[r], "answer_start") /\ Once(events[r], "answer_end")
           /\ \A es \in Seq(Event) : Sending(r, es) = events[r] \o es
<1>1. events[r] \in Seq(Event) /\ StreamOK(req[r], events[r], r \in finished)
  BY RequestFacts
<1>2. /\ r \notin finished
      /\ ~Has(events[r], "answer_end") /\ ~Has(events[r], "completed") /\ ~Has(events[r], "error")
      /\ Has(events[r], "answer_start") => req[r].streamed
      /\ Once(events[r], "answer_start") /\ Once(events[r], "answer_end")
  BY <1>1 DEF StreamOK
<1>3. \A es \in Seq(Event) : Sending(r, es) = events[r] \o es
  BY <1>2 DEF Sending
<1> QED BY <1>2, <1>3

\* An open stream that is sent an answer it has not been sent.
LEMMA StreamGrows ==
    ASSUME IInv, NEW r \in Requests, req[r].pc \in Early \cup Chosen \cup Loop, req[r].mode = "stream",
           NEW es \in Seq(Event), Once(es, "answer_start"), Once(es, "answer_end"),
           Has(es, "answer_start") => ~req[r].streamed
    PROVE  /\ Once(Sending(r, es), "answer_start") /\ Once(Sending(r, es), "answer_end")
           /\ Has(Sending(r, es), "answer_end") <=> Has(es, "answer_end")
           /\ Has(Sending(r, es), "completed") <=> Has(es, "completed")
           /\ Has(Sending(r, es), "error") <=> Has(es, "error")
<1>1. events[r] \in Seq(Event) /\ StreamOK(req[r], events[r], r \in finished)
  BY RequestFacts
<1>2. /\ Sending(r, es) = events[r] \o es
      /\ ~Has(events[r], "answer_end") /\ ~Has(events[r], "completed") /\ ~Has(events[r], "error")
      /\ Has(events[r], "answer_start") => req[r].streamed
      /\ Once(events[r], "answer_start") /\ Once(events[r], "answer_end")
  BY OpenStream
<1>3. Once(Sending(r, es), "answer_start")
  BY <1>1, <1>2, JoinedHas
<1>4. Once(Sending(r, es), "answer_end") /\ (Has(Sending(r, es), "answer_end") <=> Has(es, "answer_end"))
  BY <1>1, <1>2, JoinedHas
<1>5. Has(Sending(r, es), "completed") <=> Has(es, "completed")
  BY <1>1, <1>2, JoinedHas
<1>6. Has(Sending(r, es), "error") <=> Has(es, "error")
  BY <1>1, <1>2, JoinedHas
<1> QED BY <1>3, <1>4, <1>5, <1>6

LEMMA DirectStartsStep ==
    ASSUME IInv, NEW r \in Requests, DirectStarts(r)
    PROVE  IInv'
<1> DEFINE k  == [req[r] EXCEPT !.streamed = TRUE]
           es == <<"answer_start", "answer_chunk">>
           ev == Sending(r, es)
<1>1. /\ req[r].pc = "direct" /\ req[r].mode = "stream" /\ ~req[r].streamed
      /\ req' = [req EXCEPT ![r] = k] /\ Send(r, es)
      /\ UNCHANGED <<turns, cache, scenCache, greeted, clears, finished, ran>>
  BY DEF DirectStarts, At, shared
<1>2. /\ req[r] \in Request /\ ran[r] \in Seq(Action) /\ ReactOK(req[r], ran[r])
      /\ TurnOK(r, req[r], turns[req[r].user]) /\ GreetOK(req[r], greeted)
  BY RequestFacts
<1>3. /\ k \in Request /\ k.user = req[r].user /\ k.mode = "stream" /\ k.streamed
      /\ k.outcome = req[r].outcome /\ k.pc = "direct" /\ k.answer = req[r].answer
  BY <1>1, <1>2 DEF Request
<1>4. es \in Seq(Event) /\ ev \in Seq(Event) /\ events' = [events EXCEPT ![r] = ev]
  BY <1>1, ShortStreams, SendFacts
<1>5. /\ Once(es, "answer_start") /\ Once(es, "answer_end")
      /\ ~Has(es, "answer_end") /\ ~Has(es, "completed") /\ ~Has(es, "error")
  BY ChunksOnce
<1> HIDE DEF k, ev, es
<1>6. StreamOK(k, ev, r \in finished')
  <2>1. r \notin finished
    BY <1>1, OpenStream DEF Chosen
  <2>2. /\ Once(ev, "answer_start") /\ Once(ev, "answer_end")
        /\ ~Has(ev, "answer_end") /\ ~Has(ev, "completed") /\ ~Has(ev, "error")
    BY <1>1, <1>4, <1>5, StreamGrows DEF Chosen, ev
  <2>3. k.outcome = "open"
    BY <1>1, <1>2, <1>3 DEF TurnOK
  <2> QED BY <1>1, <1>3, <2>1, <2>2, <2>3 DEF StreamOK, After
<1>7. ReactOK(k, ran[r])
  BY <1>1, <1>2, <1>3 DEF ReactOK, Chosen
<1>8. TurnOK(r, k, turns'[k.user])
  BY <1>1, <1>2, <1>3 DEF TurnOK
<1>9. GreetOK(k, greeted')
  BY <1>1, <1>2, <1>3 DEF GreetOK
<1>10. /\ ran' = [ran EXCEPT ![r] = ran[r]]
       /\ greeted' \subseteq User /\ cache' \in [Key -> Answer \cup {NoAnswer}]
       /\ scenCache' \in [User -> Answer \cup {NoAnswer}]
  BY <1>1 DEF IInv, TypeOK
<1> QED BY <1>1, <1>2, <1>3, <1>4, <1>6, <1>7, <1>8, <1>9, <1>10, StepInv

\* The answer goes out whole, or its end.
LEMMA TellingSteps ==
    ASSUME IInv, NEW r \in Requests, Show(r) \/ Respond(r)
    PROVE  IInv'
<1> DEFINE Becomes(k, es) ==
             /\ req' = [req EXCEPT ![r] = k] /\ Send(r, es) /\ es \in Seq(Event)
             /\ req[r].pc \in {"show", "respond"}
             /\ k = [req[r] EXCEPT !.pc = "record"] \/ k = [req[r] EXCEPT !.pc = "record", !.kept = TRUE]
             /\ Once(es, "answer_start") /\ Once(es, "answer_end") /\ ~Has(es, "error")
             /\ req[r].streamed => ~Has(es, "answer_start")
<1>1. \E k, es : Becomes(k, es)
  <2>1. CASE Show(r)
    <3> DEFINE es == <<"cache_hit">> \o Shown
               k  == [req[r] EXCEPT !.pc = "record"]
    <3>1. /\ es \in Seq(Event) /\ Once(es, "answer_start") /\ Once(es, "answer_end")
          /\ ~Has(es, "error")
      <4> DEFINE hit == <<"cache_hit">>
      <4>1. /\ ~Has(hit, "answer_start") /\ ~Has(hit, "answer_end") /\ ~Has(hit, "error")
            /\ Once(hit, "answer_start") /\ Once(hit, "answer_end") /\ hit \in Seq(Event)
        BY OneEvent, ShortStreams
      <4>2. /\ ~Has(Shown, "error") /\ Once(Shown, "answer_start") /\ Once(Shown, "answer_end")
            /\ Shown \in Seq(Event)
        BY ShownOnce, ShortStreams
      <4> HIDE DEF hit
      <4>3. hit \o Shown \in Seq(Event) /\ ~Has(hit \o Shown, "error")
        BY <4>1, <4>2, JoinedHas
      <4>4. Once(hit \o Shown, "answer_start")
        BY <4>1, <4>2, JoinedHas
      <4>5. Once(hit \o Shown, "answer_end")
        BY <4>1, <4>2, JoinedHas
      <4> QED BY <4>3, <4>4, <4>5 DEF hit
    <3>2. req' = [req EXCEPT ![r] = k] /\ Send(r, es) /\ req[r].pc = "show"
      BY <2>1 DEF Show, At, Goto
    <3>3. ~req[r].streamed
      BY <3>2, RequestFacts DEF StreamOK, After
    <3> HIDE DEF es
    <3>4. Becomes(k, es)
      BY <3>1, <3>2, <3>3
    <3> HIDE DEF k, Becomes
    <3> QED BY <3>4
  <2>2. CASE Respond(r)
    <3> DEFINE k  == [req[r] EXCEPT !.pc = "record", !.kept = TRUE]
               as == IF req[r].streamed THEN <<"answer_end">> ELSE Shown
               es == as \o <<"completed">>
    <3>1. req' = [req EXCEPT ![r] = k] /\ Send(r, es) /\ req[r].pc = "respond"
      <4>1. req' = [req EXCEPT ![r] = k]
        BY <2>2, Req DEF Respond
      <4> QED BY <2>2, <4>1 DEF Respond, At
    <3>2. /\ as \in Seq(Event) /\ Once(as, "answer_start") /\ Once(as, "answer_end")
          /\ ~Has(as, "error")
          /\ req[r].streamed => ~Has(as, "answer_start")
      <4>1. CASE req[r].streamed
        BY <4>1, ShortStreams, OneEvent
      <4>2. CASE ~req[r].streamed
        BY <4>2, ShortStreams, ShownOnce
      <4> QED BY <4>1, <4>2
    <3> DEFINE last == <<"completed">>
    <3>3. /\ last \in Seq(Event) /\ Once(last, "answer_start") /\ Once(last, "answer_end")
          /\ ~Has(last, "answer_start") /\ ~Has(last, "answer_end") /\ ~Has(last, "error")
      BY ShortStreams, OneEvent
    <3> HIDE DEF as, last
    <3>4. as \o last \in Seq(Event) /\ ~Has(as \o last, "error")
      BY <3>2, <3>3, JoinedHas
    <3>5. /\ Once(as \o last, "answer_start")
          /\ req[r].streamed => ~Has(as \o last, "answer_start")
      BY <3>2, <3>3, JoinedHas
    <3>6. Once(as \o last, "answer_end")
      BY <3>2, <3>3, JoinedHas
    <3>7. /\ es \in Seq(Event) /\ Once(es, "answer_start") /\ Once(es, "answer_end")
          /\ ~Has(es, "error") /\ (req[r].streamed => ~Has(es, "answer_start"))
      BY <3>4, <3>5, <3>6 DEF last
    <3> HIDE DEF es
    <3>8. Becomes(k, es)
      BY <3>1, <3>7
    <3> HIDE DEF k, Becomes
    <3> QED BY <3>8
  <2> QED BY <2>1, <2>2
<1>2. /\ UNCHANGED <<turns, cache, scenCache, greeted, clears, ran>>
      /\ FinishStream(r)
  BY DEF Show, Respond, shared
<1>3. PICK k, es : Becomes(k, es)
  BY <1>1
<1> DEFINE ev == Sending(r, es)
<1>4. /\ req[r] \in Request /\ ran[r] \in Seq(Action) /\ ReactOK(req[r], ran[r])
      /\ req[r].mode \in {"run", "stream"} /\ StreamOK(req[r], events[r], r \in finished)
      /\ TurnOK(r, req[r], turns[req[r].user]) /\ GreetOK(req[r], greeted)
  BY RequestFacts
<1>5. /\ k \in Request /\ k.user = req[r].user /\ k.mode = req[r].mode /\ k.streamed = req[r].streamed
      /\ k.outcome = req[r].outcome /\ k.pc = "record" /\ k.answer = req[r].answer
      /\ req[r].pc \in {"show", "respond"}
      /\ req' = [req EXCEPT ![r] = k]
  BY <1>3, <1>4 DEF Request
<1>6. ev \in Seq(Event) /\ events' = [events EXCEPT ![r] = ev]
  BY <1>3, SendFacts
<1>7. /\ es \in Seq(Event) /\ Once(es, "answer_start") /\ Once(es, "answer_end") /\ ~Has(es, "error")
      /\ req[r].streamed => ~Has(es, "answer_start")
  BY <1>3
<1> HIDE DEF Becomes, ev
<1>8. StreamOK(k, ev, r \in finished')
  <2>1. CASE req[r].mode = "run"
    <3>1. ev = << >>
      BY <1>4, <2>1 DEF StreamOK, ev, Sending
    <3> QED BY <1>5, <2>1, <3>1 DEF StreamOK, After
  <2>2. CASE req[r].mode = "stream"
    <3>2. Once(ev, "answer_start") /\ Once(ev, "answer_end") /\ ~Has(ev, "error")
      BY <1>5, <1>7, <2>2, StreamGrows DEF Chosen, Loop, ev
    <3>3. r \in finished'
      BY <1>2, <2>2, FinishFacts
    <3> QED BY <1>5, <2>2, <3>2, <3>3 DEF StreamOK, Early, Chosen, Loop, After
  <2> QED BY <1>4, <2>1, <2>2
<1>9. ReactOK(k, ran[r])
  BY <1>5, StillReactOK DEF Early, Chosen
<1>10. TurnOK(r, k, turns'[k.user])
  BY <1>2, <1>4, <1>5 DEF TurnOK
<1>11. GreetOK(k, greeted')
  BY <1>2, <1>4, <1>5 DEF GreetOK
<1>12. /\ ran' = [ran EXCEPT ![r] = ran[r]]
       /\ greeted' \subseteq User /\ cache' \in [Key -> Answer \cup {NoAnswer}]
       /\ scenCache' \in [User -> Answer \cup {NoAnswer}]
       /\ finished' = finished \/ finished' = finished \cup {r}
  BY <1>2, FinishFacts DEF IInv, TypeOK
<1> QED BY <1>2, <1>4, <1>5, <1>6, <1>8, <1>9, <1>10, <1>11, <1>12, StepInv

\* A chain's answer is also remembered for its user.
LEMMA ChainAnswersStep ==
    ASSUME IInv, NEW r \in Requests, ChainAnswers(r)
    PROVE  IInv'
<1> DEFINE a == Fresh(r, "fresh")
           k == [req[r] EXCEPT !.answer = a, !.pc = "respond"]
<1>1. a \in Answer
  BY FreshIs
<1>2. /\ req[r] \in Request /\ req[r].user \in User
      /\ ran[r] \in Seq(Action) /\ events[r] \in Seq(Event) /\ ReactOK(req[r], ran[r])
      /\ StreamOK(req[r], events[r], r \in finished)
      /\ TurnOK(r, req[r], turns[req[r].user]) /\ GreetOK(req[r], greeted)
  BY RequestFacts
<1>3. /\ req[r].pc = "chain" /\ req' = [req EXCEPT ![r] = k]
      /\ scenCache' = (IF CacheOn THEN [scenCache EXCEPT ![req[r].user] = a] ELSE scenCache)
      /\ UNCHANGED <<turns, cache, greeted, clears, events, finished, ran>>
  <2>1. req' = [req EXCEPT ![r] = k]
    BY Req DEF ChainAnswers, Answers
  <2> QED BY <2>1 DEF ChainAnswers, At, stream
<1> HIDE DEF a
<1>4. /\ k \in Request /\ k.user = req[r].user /\ k.mode = req[r].mode /\ k.streamed = req[r].streamed
      /\ k.outcome = req[r].outcome /\ k.pc = "respond" /\ k.answer = a
  BY <1>1, <1>2 DEF Request
<1> HIDE DEF k
<1>5. scenCache' \in [User -> Answer \cup {NoAnswer}]
  <2>1. scenCache \in [User -> Answer \cup {NoAnswer}]
    BY DEF IInv, TypeOK
  <2>2. [scenCache EXCEPT ![req[r].user] = a] \in [User -> Answer \cup {NoAnswer}]
    BY <1>1, <2>1
  <2> QED BY <1>3, <2>1, <2>2
<1>6. StreamOK(k, events[r], r \in finished')
  <2>1. req[r].outcome = "open"
    BY <1>2, <1>3 DEF TurnOK
  <2> QED BY <1>2, <1>3, <1>4, <2>1 DEF StreamOK, Early, Chosen, Loop, After
<1>7. ReactOK(k, ran[r])
  BY <1>3, <1>4, StillReactOK DEF Early, Chosen
<1>8. TurnOK(r, k, turns'[k.user])
  BY <1>1, <1>2, <1>3, <1>4, RequestAssumption DEF TurnOK
<1>9. GreetOK(k, greeted')
  BY <1>2, <1>3, <1>4 DEF GreetOK
<1>10. /\ events' = [events EXCEPT ![r] = events[r]] /\ ran' = [ran EXCEPT ![r] = ran[r]]
       /\ greeted' \subseteq User /\ cache' \in [Key -> Answer \cup {NoAnswer}]
  BY <1>3 DEF IInv, TypeOK
<1> QED BY <1>2, <1>3, <1>4, <1>5, <1>6, <1>7, <1>8, <1>9, <1>10, StepInv

-----------------------------------------------------------------------------
(* The record and the end.                                                 *)

\* The turn a request appends to its session is its only one.
LEMMA AppendedTurn ==
    ASSUME IInv, NEW r \in Requests, req[r].pc = "record", AppendTurn(r)
    PROVE  LET u == req[r].user
           IN  /\ req[r].answer \in Answer /\ u \in greeted
               /\ turns' = [turns EXCEPT ![u] = Append(turns[u], [by |-> r, answer |-> req[r].answer])]
               /\ \A i, j \in DOMAIN turns'[u] : turns'[u][i].by = r /\ turns'[u][j].by = r => i = j
               /\ \E i \in DOMAIN turns'[u] : turns'[u][i].by = r /\ turns'[u][i].answer = req[r].answer
<1> DEFINE u  == req[r].user
           b  == [by |-> r, answer |-> req[r].answer]
           ts == turns[u]
<1>1. /\ TurnOK(r, req[r], turns[u]) /\ GreetOK(req[r], greeted) /\ u \in User
      /\ req[r].answer \in Answer \cup {NoAnswer}
  BY RequestFacts
<1>2. req[r].answer \in Answer /\ u \in greeted /\ \A i \in DOMAIN ts : ts[i].by # r
  BY <1>1 DEF TurnOK, GreetOK
<1>3. b \in Turn /\ b.by = r /\ b.answer = req[r].answer
  BY <1>2 DEF Turn
<1>4. turns \in [User -> Seq(Turn)] /\ ts \in Seq(Turn)
  BY <1>1 DEF IInv, TypeOK
<1>5. turns' = [turns EXCEPT ![u] = Append(ts, b)]
  BY <1>1, <1>4 DEF AppendTurn
<1> HIDE DEF b
<1>6. turns'[u] = Append(ts, b)
  BY <1>1, <1>4, <1>5
<1> HIDE DEF ts, u
<1>7. /\ Len(ts) \in Nat /\ DOMAIN ts = 1..Len(ts) /\ DOMAIN Append(ts, b) = 1..(Len(ts) + 1)
      /\ \A i \in 1..Len(ts) : Append(ts, b)[i] = ts[i]
      /\ Append(ts, b)[Len(ts) + 1] = b
  BY <1>3, <1>4
<1>8. /\ Len(ts) + 1 \in 1..(Len(ts) + 1)
      /\ \A i \in 1..(Len(ts) + 1) : i \in 1..Len(ts) \/ i = Len(ts) + 1
  BY <1>7
<1>9. \A i \in DOMAIN Append(ts, b) : Append(ts, b)[i].by = r => i = Len(ts) + 1
  BY <1>2, <1>7, <1>8
<1>10. \A i, j \in DOMAIN turns'[u] : turns'[u][i].by = r /\ turns'[u][j].by = r => i = j
  BY <1>6, <1>9
<1>11. \E i \in DOMAIN turns'[u] : turns'[u][i].by = r /\ turns'[u][i].answer = req[r].answer
  BY <1>3, <1>6, <1>7, <1>8
<1> QED BY <1>2, <1>5, <1>10, <1>11 DEF b, ts, u

LEMMA RecordStep ==
    ASSUME IInv, NEW r \in Requests, Record(r)
    PROVE  IInv'
<1> DEFINE u  == req[r].user
           k1 == [req[r] EXCEPT !.pc = "remember"]
           k2 == [req[r] EXCEPT !.pc = "done", !.outcome = "ok"]
<1>1. /\ req[r].pc = "record" /\ AppendTurn(r)
      /\ UNCHANGED <<cache, scenCache, greeted, clears, events, finished, ran>>
  BY DEF Record, At, stream
<1>2. /\ req[r] \in Request /\ u \in User
      /\ ran[r] \in Seq(Action) /\ events[r] \in Seq(Event)
      /\ StreamOK(req[r], events[r], r \in finished)
      /\ TurnOK(r, req[r], turns[u]) /\ GreetOK(req[r], greeted)
  BY RequestFacts
<1>3. PICK k \in {k1, k2} : req' = [req EXCEPT ![r] = k]
  <2>1. CASE req[r].kept
    BY <2>1 DEF Record, Goto
  <2>2. CASE ~req[r].kept
    <3>1. req' = [req EXCEPT ![r] = k2]
      BY <2>2, Req DEF Record, Done
    <3> QED BY <3>1
  <2> QED BY <2>1, <2>2
<1>4. req[r].outcome = "open"
  BY <1>1, <1>2 DEF TurnOK
<1>5. /\ k \in Request /\ k.user = u /\ k.mode = req[r].mode /\ k.streamed = req[r].streamed
      /\ k.answer = req[r].answer
      /\ (k.pc = "remember" /\ k.outcome = "open") \/ (k.pc = "done" /\ k.outcome = "ok")
  BY <1>2, <1>4 DEF Request
<1>6. /\ req[r].answer \in Answer /\ u \in greeted
      /\ turns' = [turns EXCEPT ![u] = Append(turns[u], [by |-> r, answer |-> req[r].answer])]
      /\ \A i, j \in DOMAIN turns'[u] : turns'[u][i].by = r /\ turns'[u][j].by = r => i = j
      /\ \E i \in DOMAIN turns'[u] : turns'[u][i].by = r /\ turns'[u][i].answer = req[r].answer
  BY <1>1, AppendedTurn
<1> HIDE DEF u, k1, k2
<1>7. TurnOK(r, k, turns'[k.user])
  BY <1>5, <1>6 DEF TurnOK
<1>8. StreamOK(k, events[r], r \in finished')
  BY <1>1, <1>2, <1>5 DEF StreamOK, Early, Chosen, Loop, After
<1>9. ReactOK(k, ran[r])
  BY <1>5, StillReactOK DEF Early, Chosen
<1>10. GreetOK(k, greeted')
  BY <1>1, <1>5, <1>6 DEF GreetOK
<1>11. /\ events' = [events EXCEPT ![r] = events[r]] /\ ran' = [ran EXCEPT ![r] = ran[r]]
       /\ greeted' \subseteq User /\ cache' \in [Key -> Answer \cup {NoAnswer}]
       /\ scenCache' \in [User -> Answer \cup {NoAnswer}]
  BY <1>1 DEF IInv, TypeOK
<1>12. \E a \in Answer :
         /\ turns' = [turns EXCEPT ![k.user] = Append(turns[k.user], [by |-> r, answer |-> a])]
         /\ k.user \in greeted
  BY <1>5, <1>6
<1>13. k.user = req[r].user
  BY <1>5 DEF u
<1> QED BY <1>1, <1>2, <1>3, <1>5, <1>7, <1>8, <1>9, <1>10, <1>11, <1>12, <1>13, StepInv

\* What is cached for a user was recorded in his session.
LEMMA RememberStep ==
    ASSUME IInv, NEW r \in Requests, Remember(r)
    PROVE  IInv'
<1> DEFINE u == req[r].user
           a == req[r].answer
           k == [req[r] EXCEPT !.pc = "ending"]
<1>1. /\ req[r].pc = "remember" /\ req' = [req EXCEPT ![r] = k]
      /\ cache' = (IF CacheOn THEN [cache EXCEPT ![KeyOf(r)] = a] ELSE cache)
      /\ UNCHANGED <<turns, scenCache, greeted, clears, events, finished, ran>>
  BY DEF Remember, At, Goto, stream
<1>2. /\ req[r] \in Request /\ u \in User /\ req[r].query \in Query /\ a \in Answer \cup {NoAnswer}
      /\ ran[r] \in Seq(Action) /\ events[r] \in Seq(Event)
      /\ StreamOK(req[r], events[r], r \in finished)
      /\ TurnOK(r, req[r], turns[u]) /\ GreetOK(req[r], greeted)
  BY RequestFacts
<1>3. /\ k \in Request /\ k.user = u /\ k.mode = req[r].mode /\ k.streamed = req[r].streamed
      /\ k.answer = a /\ k.pc = "ending" /\ k.outcome = req[r].outcome
  BY <1>2 DEF Request
<1>4. \E i \in DOMAIN turns[u] : turns[u][i].by = r /\ turns[u][i].answer = a
  BY <1>1, <1>2 DEF TurnOK
<1>5. KeyOf(r) \in Key /\ KeyOf(r)[1] = u
  BY <1>2 DEF KeyOf, Key
<1> HIDE DEF u, a, k
<1>6. cache \in [Key -> Answer \cup {NoAnswer}]
  BY DEF IInv, TypeOK
<1>7. /\ cache' \in [Key -> Answer \cup {NoAnswer}]
      /\ \A c \in Key : \/ cache'[c] \in {NoAnswer, cache[c]}
                       \/ \E i \in DOMAIN turns[c[1]] : turns[c[1]][i].answer = cache'[c]
  <2>1. CASE CacheOn
    <3>1. cache' = [cache EXCEPT ![KeyOf(r)] = a]
      BY <1>1, <2>1
    <3>2. cache' \in [Key -> Answer \cup {NoAnswer}]
      BY <1>2, <1>6, <3>1
    <3>3. ASSUME NEW c \in Key
          PROVE  \/ cache'[c] \in {NoAnswer, cache[c]}
                 \/ \E i \in DOMAIN turns[c[1]] : turns[c[1]][i].answer = cache'[c]
      <4>1. CASE c = KeyOf(r)
        BY <1>4, <1>5, <1>6, <3>1, <4>1
      <4>2. CASE c # KeyOf(r)
        BY <1>6, <3>1, <4>2
      <4> QED BY <4>1, <4>2
    <3> QED BY <3>2, <3>3
  <2>2. CASE ~CacheOn
    BY <1>1, <1>6, <2>2
  <2> QED BY <2>1, <2>2
<1>8. TurnOK(r, k, turns'[k.user])
  BY <1>1, <1>2, <1>3 DEF TurnOK, u, a
<1>9. StreamOK(k, events[r], r \in finished')
  BY <1>1, <1>2, <1>3 DEF StreamOK, Early, Chosen, Loop, After
<1>10. ReactOK(k, ran[r])
  BY <1>3, StillReactOK DEF Early, Chosen
<1>11. GreetOK(k, greeted')
  BY <1>1, <1>2, <1>3 DEF GreetOK, u
<1>12. /\ events' = [events EXCEPT ![r] = events[r]] /\ ran' = [ran EXCEPT ![r] = ran[r]]
       /\ greeted' \subseteq User /\ scenCache' \in [User -> Answer \cup {NoAnswer}]
  BY <1>1 DEF IInv, TypeOK
<1>13. k.user = req[r].user
  BY <1>3 DEF u
<1> QED BY <1>1, <1>2, <1>3, <1>7, <1>8, <1>9, <1>10, <1>11, <1>12, <1>13, StepInv

\* A failure is told to a stream that is not finished; the turn may be there.
LEMMA FailStep ==
    ASSUME IInv, NEW r \in Requests, Fail(r),
           req[r].pc \in Early \cup Chosen \cup Loop \cup After, ran' = ran,
           UNCHANGED <<cache, scenCache, greeted, clears>>,
           turns' = turns \/ (req[r].pc = "record" /\ AppendTurn(r))
    PROVE  IInv'
<1> DEFINE u  == req[r].user
           k  == [req[r] EXCEPT !.pc = "done", !.outcome = "error", !.answer = Fresh(r, "error")]
           es == <<"error">>
           ev == Sending(r, es)
<1>1. req' = [req EXCEPT ![r] = k] /\ Send(r, es) /\ FinishStream(r)
  <2>1. req' = [req EXCEPT ![r] = k]
    BY Req DEF Fail
  <2> QED BY <2>1 DEF Fail
<1>2. /\ req[r] \in Request /\ u \in User /\ req[r].mode \in {"run", "stream"}
      /\ ran[r] \in Seq(Action) /\ events[r] \in Seq(Event)
      /\ StreamOK(req[r], events[r], r \in finished) /\ TurnOK(r, req[r], turns[u])
  BY RequestFacts
<1>3. Fresh(r, "error") \in Answer
  BY FreshIs
<1>4. /\ k \in Request /\ k.user = u /\ k.mode = req[r].mode /\ k.streamed = req[r].streamed
      /\ k.pc = "done" /\ k.outcome = "error"
  <2>1. k \in Request
    BY <1>2, <1>3, ZenonT(40) DEF Request
  <2> QED BY <1>2, <2>1 DEF Request
<1>5. /\ es \in Seq(Event) /\ Once(es, "answer_start") /\ Once(es, "answer_end")
      /\ ~Has(es, "answer_start") /\ ~Has(es, "completed")
  BY ShortStreams, OneEvent
<1> HIDE DEF u, k, es
<1>6. ev \in Seq(Event) /\ events' = [events EXCEPT ![r] = ev]
  BY <1>1, <1>5, SendFacts
<1>7. /\ finished' = finished \/ finished' = finished \cup {r}
      /\ req[r].mode = "stream" => r \in finished'
  BY <1>1, FinishFacts
<1> HIDE DEF ev
<1>8. StreamOK(k, ev, r \in finished')
  <2>1. CASE req[r].mode = "run"
    <3>1. ev = << >>
      BY <1>2, <2>1 DEF StreamOK, ev, Sending
    <3> QED BY <1>4, <2>1, <3>1 DEF StreamOK
  <2>2. CASE req[r].mode = "stream"
    <3>1. /\ Once(ev, "answer_start") /\ Once(ev, "answer_end")
          /\ ~Has(ev, "completed") \/ ~Has(ev, "error")
      <4>1. CASE req[r].pc \in After
        <5>1. ev = events[r]
          BY <1>2, <2>2, <4>1 DEF StreamOK, ev, Sending
        <5> QED BY <1>2, <2>2, <5>1 DEF StreamOK
      <4>2. CASE req[r].pc \in Early \cup Chosen \cup Loop
        BY <1>5, <2>2, <4>2, StreamGrows DEF ev
      <4> QED BY <4>1, <4>2
    <3> QED BY <1>4, <1>7, <2>2, <3>1 DEF StreamOK, Early, Chosen, Loop, After
  <2> QED BY <1>2, <2>1, <2>2
<1>9. ReactOK(k, ran[r])
  BY <1>4, StillReactOK DEF Early, Chosen
<1>10. GreetOK(k, greeted')
  BY <1>4 DEF GreetOK
<1>11. ran' = [ran EXCEPT ![r] = ran[r]] /\ greeted' \subseteq User /\ greeted \subseteq greeted'
       /\ cache' \in [Key -> Answer \cup {NoAnswer}] /\ scenCache' \in [User -> Answer \cup {NoAnswer}]
  BY DEF IInv, TypeOK
<1>12. /\ \A i, j \in DOMAIN turns'[u] : turns'[u][i].by = r /\ turns'[u][j].by = r => i = j
       /\ \/ turns' = turns
          \/ \E a \in Answer :
               /\ turns' = [turns EXCEPT ![u] = Append(turns[u], [by |-> r, answer |-> a])]
               /\ u \in greeted
  <2>1. CASE turns' = turns
    BY <1>2, <2>1 DEF TurnOK
  <2>2. CASE req[r].pc = "record" /\ AppendTurn(r)
    <3>1. /\ req[r].answer \in Answer /\ u \in greeted
          /\ turns' = [turns EXCEPT ![u] = Append(turns[u], [by |-> r, answer |-> req[r].answer])]
          /\ \A i, j \in DOMAIN turns'[u] : turns'[u][i].by = r /\ turns'[u][j].by = r => i = j
      BY <2>2, AppendedTurn DEF u
    <3> QED BY <3>1
  <2> QED BY <2>1, <2>2
<1>13. TurnOK(r, k, turns'[k.user])
  BY <1>4, <1>12 DEF TurnOK
<1>14. k.user = req[r].user
  BY <1>4 DEF u
<1>15. \/ turns' = turns
       \/ \E a \in Answer :
            /\ turns' = [turns EXCEPT ![k.user] = Append(turns[k.user], [by |-> r, answer |-> a])]
            /\ k.user \in greeted
  BY <1>4, <1>12
<1> QED BY <1>1, <1>2, <1>4, <1>6, <1>7, <1>8, <1>9, <1>10, <1>11, <1>13, <1>14, <1>15, StepInv

LEMMA FailureSteps ==
    ASSUME IInv, NEW r \in Requests, Raises(r) \/ RecordRaises(r)
    PROVE  IInv'
<1>1. CASE Raises(r)
  <2>1. /\ Fail(r) /\ ran' = ran /\ UNCHANGED <<turns, cache, scenCache, greeted, clears>>
        /\ req[r].pc \in Early \cup Chosen \cup Loop \cup After
    BY <1>1 DEF Raises, shared, Early, Chosen, Loop, After
  <2> QED BY <2>1, FailStep
<1>2. CASE RecordRaises(r)
  <2>1. /\ Fail(r) /\ ran' = ran /\ UNCHANGED <<cache, scenCache, greeted, clears>>
        /\ turns' = turns \/ AppendTurn(r)
        /\ req[r].pc = "record" /\ req[r].pc \in Early \cup Chosen \cup Loop \cup After
    BY <1>2 DEF RecordRaises, At, After
  <2> QED BY <2>1, FailStep
<1> QED BY <1>1, <1>2

LEMMA StillLocal ==
    ASSUME NEW r \in Requests, Local(r), UNCHANGED <<req, turns, greeted, events, finished, ran>>
    PROVE  Local(r)'
<1> SUFFICES /\ StreamOK(req'[r], events'[r], r \in finished')
             /\ ReactOK(req'[r], ran'[r])
             /\ TurnOK(r, req'[r], turns'[req'[r].user])
             /\ GreetOK(req'[r], greeted')
  BY DEF Local, StreamOK, ReactOK, TurnOK, GreetOK, Once, Has
<1> QED BY DEF Local

\* An entry that is cleared, or has expired, is nobody's answer.
LEMMA ForgetStep ==
    ASSUME IInv, NEW c \in Key, Forget(c)
    PROVE  IInv'
<1>1. UNCHANGED <<req, turns, greeted, events, finished, ran>>
  BY DEF Forget, stream
<1>2. /\ cache \in [Key -> Answer \cup {NoAnswer}] /\ scenCache \in [User -> Answer \cup {NoAnswer}]
      /\ clears \in 0..MaxClears
  BY DEF IInv, TypeOK
<1>3. clears' \in 0..MaxClears
  BY <1>2, RequestAssumption DEF Forget
<1>4. /\ cache' \in [Key -> Answer \cup {NoAnswer}] /\ scenCache' \in [User -> Answer \cup {NoAnswer}]
      /\ \A d \in Key : cache'[d] \in {NoAnswer, cache[d]}
  <2>1. CASE cache' = [cache EXCEPT ![c] = NoAnswer] /\ UNCHANGED scenCache
    BY <1>2, <2>1
  <2>2. CASE scenCache' = [scenCache EXCEPT ![c[1]] = NoAnswer] /\ UNCHANGED cache
    BY <1>2, <2>2
  <2> QED BY <2>1, <2>2 DEF Forget
<1>5. TypeOK'
  BY <1>1, <1>3, <1>4 DEF IInv, TypeOK, Turn, Request, Answer, Key, Verdicts
<1>6. \A r \in Requests : Local(r)'
  BY <1>1, StillLocal DEF IInv
<1>7. GreetedFirst' /\ CacheOwn'
  BY <1>1, <1>4 DEF IInv, GreetedFirst, CacheOwn, Key
<1>8. events' \in [Requests -> Seq(Event)]
  BY <1>1 DEF IInv
<1> QED BY <1>5, <1>6, <1>7, <1>8 DEF IInv

-----------------------------------------------------------------------------
LEMMA NextInv == IInv /\ [Next]_vars => IInv'
<1> SUFFICES ASSUME IInv, [Next]_vars PROVE IInv'
  OBVIOUS
<1>1. ASSUME NEW r \in Requests, Advance(r) PROVE IInv'
  <2>1. CASE Accept(r) \/ Open(r)
    BY <2>1, OpeningSteps
  <2>2. CASE Start(r)
    BY <2>2, StartStep
  <2>3. CASE StageAnswers(r) \/ CheckCache(r) \/ HookStops(r)
               \/ \E verdict \in Verdicts : Classified(r, verdict)
    BY <2>3, ChoosingSteps
  <2>4. CASE StageAborts(r) \/ End(r)
    BY <2>4, ClosingSteps
  <2>5. CASE Show(r) \/ Respond(r)
    BY <2>5, TellingSteps
  <2>6. CASE (\E filled \in BOOLEAN : Execute(r, filled)) \/ DirectAnswers(r) \/ ChainFails(r)
               \/ PlanAnswers(r) \/ PlanFallsBack(r)
    BY <2>6, ExecutionSteps
  <2>7. CASE DirectStarts(r)
    BY <2>7, DirectStartsStep
  <2>8. CASE ChainAnswers(r)
    BY <2>8, ChainAnswersStep
  <2>9. CASE React(r)
    <3>1. CASE \E a \in Action : ThinkAction(r, a)
      BY <3>1, ThinkActionStep
    <3>2. CASE ThinkNothing(r) \/ ToolObserved(r)
      BY <3>2, LoopSteps
    <3>3. CASE ThinkFinal(r) \/ ToolAnswers(r) \/ Conclude(r)
      BY <3>3, ExecutionSteps
    <3> QED BY <2>9, <3>1, <3>2, <3>3 DEF React
  <2>10. CASE Record(r)
    BY <2>10, RecordStep
  <2>11. CASE Remember(r)
    BY <2>11, RememberStep
  <2> QED BY <1>1, <2>1, <2>2, <2>3, <2>4, <2>5, <2>6, <2>7, <2>8, <2>9, <2>10, <2>11 DEF Advance
<1>2. ASSUME NEW r \in Requests, Failure(r) PROVE IInv'
  BY <1>2, OpeningSteps, FailureSteps DEF Failure
<1>3. ASSUME NEW c \in Key, Forget(c) PROVE IInv'
  BY <1>3, ForgetStep
<1>4. ASSUME UNCHANGED vars PROVE IInv'
  <2>1. TypeOK' /\ GreetedFirst' /\ CacheOwn' /\ events' \in [Requests -> Seq(Event)]
    BY <1>4 DEF IInv, vars, TypeOK, GreetedFirst, CacheOwn, Turn, Request, Answer, Key, Verdicts
  <2>2. \A r \in Requests : Local(r)'
    BY <1>4, StillLocal DEF IInv, vars
  <2> QED BY <2>1, <2>2 DEF IInv
<1> QED BY <1>1, <1>2, <1>3, <1>4 DEF Next

LEMMA AlwaysIInv == Spec => []IInv
  BY InitInv, NextInv, PTL DEF Spec

-----------------------------------------------------------------------------
\* At most one place holds what is held once.
LEMMA AtMostOne ==
    ASSUME NEW n \in Nat, NEW S, S \subseteq 1..n, \A i, j \in S : i = j
    PROVE  Cardinality(S) <= 1
<1>1. CASE S = {}
  BY <1>1, FS_EmptySet
<1>2. CASE S # {}
  <2>1. PICK i \in S : TRUE
    BY <1>2
  <2>2. S = {i}
    BY <2>1
  <2> QED BY <2>2, FS_Singleton
<1> QED BY <1>1, <1>2

\* The requests, the sessions, the caches and the streams have their types.
THEOREM RequestsTypeCorrect == Spec => []TypeOK
<1>1. IInv => TypeOK
  BY DEF IInv
<1> QED BY <1>1, AlwaysIInv, PTL

\* No client is sent an answer twice, nor "error" after "completed"; the stream of
\* an answered or failed request is finished; no ReAct loop executes an action
\* twice, nor one in its last iteration.
THEOREM AlwaysActedOnce == Spec => []ActedOnce
<1>1. IInv => ActedOnce
  <2> SUFFICES ASSUME IInv PROVE ActedOnce
    OBVIOUS
  <2>1. ClientTold
    <3> SUFFICES ASSUME NEW r \in Requests
                 PROVE  /\ Cardinality(Sent(r, "answer_start")) <= 1
                        /\ Cardinality(Sent(r, "answer_end")) <= 1
                        /\ Sent(r, "completed") = {} \/ Sent(r, "error") = {}
                        /\ req[r].mode = "stream" /\ req[r].outcome \in {"ok", "error"} => r \in finished
      BY DEF ClientTold
    <3>1. /\ StreamOK(req[r], events[r], r \in finished) /\ req[r].mode \in {"run", "stream"}
          /\ events[r] \in Seq(Event)
      BY RequestFacts
    <3>2. /\ Once(events[r], "answer_start") /\ Once(events[r], "answer_end")
          /\ ~Has(events[r], "completed") \/ ~Has(events[r], "error")
      <4>1. CASE req[r].mode = "run"
        BY <3>1, <4>1 DEF StreamOK, Once, Has
      <4>2. CASE req[r].mode = "stream"
        BY <3>1, <4>2 DEF StreamOK
      <4> QED BY <3>1, <4>1, <4>2
    <3>3. /\ Len(events[r]) \in Nat /\ DOMAIN events[r] = 1..Len(events[r])
      BY <3>1
    <3>4. ASSUME NEW e, Once(events[r], e) PROVE Cardinality(Sent(r, e)) <= 1
      <4>1. Sent(r, e) \subseteq 1..Len(events[r]) /\ \A i, j \in Sent(r, e) : i = j
        BY <3>3, <3>4 DEF Sent, Once
      <4> QED BY <3>3, <4>1, AtMostOne
    <3>5. Sent(r, "completed") = {} \/ Sent(r, "error") = {}
      BY <3>2 DEF Sent, Has
    <3> QED BY <3>1, <3>2, <3>4, <3>5 DEF StreamOK
  <2>2. NoActionTwice
    BY RequestFacts DEF NoActionTwice, ReactOK
  <2> QED BY <2>1, <2>2 DEF ActedOnce
<1> QED BY <1>1, AlwaysIInv, PTL

\* A session is greeted before its first turn, and gets one turn of each request
\* that was answered, with its answer, and none of one that was not served.
THEOREM AlwaysRecordedOnce == Spec => []RecordedOnce
<1>1. IInv => RecordedOnce
  <2> SUFFICES ASSUME IInv, NEW r \in Requests
               PROVE  /\ Cardinality(TurnsOf(r)) <= 1
                      /\ req[r].outcome = "ok" =>
                           \E i \in TurnsOf(r) : turns[req[r].user][i].answer = req[r].answer
                      /\ req[r].outcome \in {"rejected", "aborted", "raised"} => TurnsOf(r) = {}
    BY DEF IInv, RecordedOnce, OneTurn
  <2> DEFINE ts == turns[req[r].user]
  <2>1. TurnOK(r, req[r], ts) /\ req[r].user \in User
    BY RequestFacts
  <2>2. ts \in Seq(Turn)
    BY <2>1 DEF IInv, TypeOK
  <2>3. TurnsOf(r) = {i \in DOMAIN ts : ts[i].by = r}
    BY DEF TurnsOf
  <2> HIDE DEF ts
  <2>4. Len(ts) \in Nat /\ DOMAIN ts = 1..Len(ts)
    BY <2>2
  <2>5. TurnsOf(r) \subseteq 1..Len(ts) /\ \A i, j \in TurnsOf(r) : i = j
    BY <2>1, <2>3, <2>4 DEF TurnOK
  <2>6. Cardinality(TurnsOf(r)) <= 1
    BY <2>4, <2>5, AtMostOne
  <2>7. req[r].outcome = "ok" => \E i \in TurnsOf(r) : ts[i].answer = req[r].answer
    BY <2>1, <2>3 DEF TurnOK
  <2>8. req[r].outcome \in {"rejected", "aborted", "raised"} => TurnsOf(r) = {}
    BY <2>1, <2>3 DEF TurnOK
  <2> QED BY <2>6, <2>7, <2>8 DEF ts
<1> QED BY <1>1, AlwaysIInv, PTL

\* What the cache holds for a user was said to him: it is a turn of his session.
THEOREM AlwaysCacheOwn == Spec => []CacheOwn
<1>1. IInv => CacheOwn
  BY DEF IInv
<1> QED BY <1>1, AlwaysIInv, PTL

=============================================================================
