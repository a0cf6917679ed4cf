--------------------------- MODULE MCPClientProofs ---------------------------
(***************************************************************************)
(* Proofs about MCPClient, for any callers and bounds: an answer reaches   *)
(* the future of its own request, no request waits behind a dead           *)
(* dispatcher, a future is set once, and the client implements             *)
(* RemoteCalls.                                                            *)
(***************************************************************************)
EXTENDS MCPClient, TLAPS

\* The ids are the serial numbers, and a request exists once it is counted.
IdentInv ==
    /\ nextId = serial + 1
    /\ \A r \in Request :
         /\ r <= serial => ident[r] = r /\ outcome[r] # "none"
         /\ r > serial => fut[r] = "none" /\ outcome[r] = "none"
    /\ pending \subseteq 1..serial
    /\ doomed \subseteq 1..serial

\* The entry of a future that is not done is never lost.
WaitingInv == \A r \in Request : fut[r] = "waiting" => r \in pending

\* Two tasks never have one request, and theirs are open.
TaskInv ==
    /\ \A t \in Tasks : at[t] # 0 => at[t] <= serial /\ outcome[at[t]] = "open"
    /\ \A t, u \in Tasks : at[t] # 0 /\ at[t] = at[u] => t = u
    /\ \A t \in Tasks : sending[t] # "no" => at[t] # 0

\* The server has only what the client made.
ServerInv == queue \subseteq 1..serial /\ executed \subseteq 1..serial

\* An answer carries the id of the request it was given to, or one of no request.
Fits(m, done) == m.kind = "answer" => m.id = m.of /\ m.of \in done \cup {0}

AnswerInv ==
    /\ \A i \in DOMAIN inbox : Fits(inbox[i], executed)
    /\ \A r \in Request : fut[r] = "answer" => r \in executed

IInv ==
    /\ TypeOK /\ IdentInv /\ WaitingInv /\ TaskInv /\ ServerInv /\ AnswerInv
    /\ FuturesSound

-----------------------------------------------------------------------------
LEMMA InitInv == Init => IInv
<1> SUFFICES ASSUME Init PROVE IInv
  OBVIOUS
<1> USE ClientAssumption
<1>1. TypeOK
  <2>1. inbox \in Seq(Message)
    BY DEF Init
  <2>2. /\ ident \in [Request -> 0..MaxRequests] /\ answers \in [Request -> 0..MaxRequests]
        /\ fut \in [Request ->
             {"none", "waiting", "answer", "failed", "cancelled"}]
        /\ at \in [Tasks -> 0..MaxRequests]
        /\ outcome \in [Request -> {"none", "open", "ok", "error"}]
    BY DEF Init
  <2>3. /\ nextId \in 1..(MaxRequests + 1) /\ serial \in 0..MaxRequests
        /\ noise \in 0..MaxNoise /\ starts \in 0..MaxStarts
    BY DEF Init
  <2>4. /\ transport \in {"stdio", "sse"} /\ phase = "new" /\ dispatcher = "none"
        /\ started = FALSE /\ initialized = FALSE /\ server = "none"
        /\ pending = {} /\ sending \in [Tasks -> Places] /\ queue = {} /\ executed = {} /\ doomed = {}
    BY DEF Init, Places
  <2> QED BY <2>1, <2>2, <2>3, <2>4 DEF TypeOK
<1>2. IdentInv /\ WaitingInv
  BY DEF Init, IdentInv, WaitingInv, Request
<1>3. TaskInv
  BY DEF Init, TaskInv
<1>4. ServerInv
  BY DEF Init, ServerInv
<1>5. AnswerInv
  BY DEF Init, AnswerInv, Request
<1>6. FuturesSound
  BY DEF Init, FuturesSound, MatchedAnswer, InFlightFailed
<1> QED BY <1>1, <1>2, <1>3, <1>4, <1>5, <1>6 DEF IInv

\* A registered request is a new one, open, and its future waits in _pending.
LEMMA RegisterStep ==
    ASSUME IInv, NEW t \in Tasks, NEW place \in Places, Register(t, place)
    PROVE  /\ nextId' \in 1..(MaxRequests + 1) /\ serial' \in 0..MaxRequests
           /\ ident' \in [Request -> 0..MaxRequests]
           /\ fut' \in [Request ->
                {"none", "waiting", "answer", "failed", "cancelled"}]
           /\ pending' \subseteq Request
           /\ at' \in [Tasks -> 0..MaxRequests] /\ sending' \in [Tasks -> Places]
           /\ outcome' \in [Request -> {"none", "open", "ok", "error"}]
           /\ serial' = serial + 1 /\ serial \in Nat /\ serial' \in Request
           /\ at'[t] = serial' /\ at[t] = 0 /\ \A u \in Tasks \ {t} : at'[u] = at[u]
           /\ pending' = pending \cup {serial'}
           /\ fut'[serial'] = "waiting" /\ outcome'[serial'] = "open"
           /\ ident'[serial'] = serial' /\ nextId' = serial' + 1
           /\ \A r \in Request \ {serial'} :
                ident'[r] = ident[r] /\ fut'[r] = fut[r] /\ outcome'[r] = outcome[r]
           /\ sending' = [sending EXCEPT ![t] = place] /\ answers' = answers
<1> USE ClientAssumption DEF IInv
<1>1. /\ serial \in Nat /\ serial' = serial + 1 /\ serial' \in Request /\ nextId = serial'
      /\ MaxRequests \in Nat
  BY DEF Register, TypeOK, IdentInv
<1>2. serial' \in 1..MaxRequests
  BY <1>1 DEF Request
<1>3. /\ nextId' = serial' + 1
      /\ ident' = [ident EXCEPT ![serial'] = serial']
      /\ fut' = [fut EXCEPT ![serial'] = "waiting"]
      /\ outcome' = [outcome EXCEPT ![serial'] = "open"]
      /\ at' = [at EXCEPT ![t] = serial'] /\ at[t] = 0
      /\ sending' = [sending EXCEPT ![t] = place] /\ answers' = answers
  BY <1>1 DEF Register
<1>4. pending' = pending \cup {serial'}
  <2>1. ASSUME NEW p \in pending PROVE ident[p] # nextId
    <3>1. p \in 1..serial /\ p \in Request
      BY DEF IdentInv, TypeOK
    <3> QED BY <3>1, <1>1 DEF IdentInv
  <2>2. pending' = {p \in pending : ident[p] # nextId} \cup {serial'}
    BY <1>1 DEF Register
  <2> QED BY <2>1, <2>2
<1>5. /\ nextId' \in 1..(MaxRequests + 1) /\ serial' \in 0..MaxRequests
      /\ ident' \in [Request -> 0..MaxRequests]
      /\ at' \in [Tasks -> 0..MaxRequests] /\ sending' \in [Tasks -> Places]
      /\ pending' \subseteq Request
  BY <1>1, <1>2, <1>3, <1>4 DEF TypeOK
<1>6. /\ fut' \in [Request ->
              {"none", "waiting", "answer", "failed", "cancelled"}]
      /\ outcome' \in [Request -> {"none", "open", "ok", "error"}]
  BY <1>1, <1>3 DEF TypeOK
<1>7. /\ at'[t] = serial' /\ \A u \in Tasks \ {t} : at'[u] = at[u]
      /\ fut'[serial'] = "waiting" /\ outcome'[serial'] = "open" /\ ident'[serial'] = serial'
      /\ \A r \in Request \ {serial'} :
           ident'[r] = ident[r] /\ fut'[r] = fut[r] /\ outcome'[r] = outcome[r]
  BY <1>1, <1>3 DEF TypeOK
<1> QED BY <1>1, <1>3, <1>4, <1>5, <1>6, <1>7

\* Registering preserves what is known of requests, tasks and answers, if the
\* server and the dispatcher have not gone further meanwhile.
LEMMA RegisterInv ==
    ASSUME IInv, NEW t \in Tasks, NEW place \in Places, Register(t, place),
           queue' \subseteq queue \cup {serial'}, executed' = executed, inbox' = inbox \/ inbox' = <<>>,
           doomed' \subseteq doomed, dispatcher' = "dead" => dispatcher = "dead"
    PROVE  IdentInv' /\ WaitingInv' /\ TaskInv' /\ ServerInv' /\ AnswerInv' /\ FuturesSound'
<1> USE ClientAssumption
<1>0. TypeOK /\ IdentInv /\ WaitingInv /\ TaskInv /\ ServerInv /\ AnswerInv /\ FuturesSound
  BY DEF IInv
<1>1. /\ serial' = serial + 1 /\ serial \in Nat /\ serial' \in Request
      /\ at'[t] = serial' /\ at[t] = 0 /\ \A u \in Tasks \ {t} : at'[u] = at[u]
      /\ pending' = pending \cup {serial'}
      /\ fut'[serial'] = "waiting" /\ outcome'[serial'] = "open"
      /\ ident'[serial'] = serial' /\ nextId' = serial' + 1
      /\ \A r \in Request \ {serial'} :
           ident'[r] = ident[r] /\ fut'[r] = fut[r] /\ outcome'[r] = outcome[r]
      /\ sending' = [sending EXCEPT ![t] = place] /\ answers' = answers
  BY RegisterStep
<1>2. 1..serial \subseteq 1..serial' /\ serial' \notin 1..serial /\ serial' \in 1..serial'
  BY <1>1
<1>3. Request \subseteq Nat /\ \A u \in Tasks : at[u] \in Nat
  BY <1>0 DEF TypeOK, Request
<1>4. IdentInv'
  <2>1. pending' \subseteq 1..serial' /\ doomed' \subseteq 1..serial'
    BY <1>0, <1>1, <1>2 DEF IdentInv
  <2>2. ASSUME NEW r \in Request
        PROVE  /\ r <= serial' => ident'[r] = r /\ outcome'[r] # "none"
               /\ r > serial' => fut'[r] = "none" /\ outcome'[r] = "none"
    <3>1. CASE r = serial'
      BY <3>1, <1>1, <1>3
    <3>2. CASE r # serial'
      BY <3>2, <1>0, <1>1, <1>3 DEF IdentInv
    <3> QED BY <3>1, <3>2
  <2> QED BY <2>1, <2>2, <1>1 DEF IdentInv
<1>5. WaitingInv'
  BY <1>0, <1>1 DEF WaitingInv
<1>6. \A u \in Tasks \ {t} : at[u] # 0 => at[u] \in 1..serial /\ at[u] # serial' /\ at[u] \in Request
  BY <1>0, <1>1, <1>3 DEF TaskInv, Request, TypeOK
<1>7. TaskInv'
  <2>1. \A u \in Tasks : at'[u] # 0 => at'[u] <= serial' /\ outcome'[at'[u]] = "open"
    BY <1>0, <1>1, <1>3, <1>6 DEF TaskInv
  <2>2. \A u, v \in Tasks : at'[u] # 0 /\ at'[u] = at'[v] => u = v
    BY <1>0, <1>1, <1>6 DEF TaskInv
  <2>3. \A u \in Tasks : sending'[u] # "no" => at'[u] # 0
    BY <1>0, <1>1 DEF TaskInv, TypeOK
  <2> QED BY <2>1, <2>2, <2>3 DEF TaskInv
<1>8. ServerInv'
  BY <1>0, <1>2 DEF ServerInv
<1>9. AnswerInv'
  BY <1>0, <1>1 DEF AnswerInv
<1>10. FuturesSound'
  <2>1. MatchedAnswer'
    BY <1>0, <1>1 DEF FuturesSound, MatchedAnswer
  <2>2. InFlightFailed'
    BY <1>0, <1>1, <1>2 DEF FuturesSound, InFlightFailed, IdentInv, TypeOK
  <2> QED BY <2>1, <2>2 DEF FuturesSound
<1> QED BY <1>4, <1>5, <1>7, <1>8, <1>9, <1>10

LEMMA CallInv == ASSUME IInv, NEW c \in Callers, Call(c) PROVE IInv'
<1> DEFINE place == IF server = "none" THEN "unstarted" ELSE IF Busy THEN "lock" ELSE "wire"
<1>1. /\ c \in Tasks /\ Register(c, place) /\ place \in Places
      /\ queue' \subseteq queue \cup {serial'}
      /\ UNCHANGED <<owner, dispatcher, server, executed, inbox, noise, doomed>>
  BY DEF Call, Tasks, Places
<1> HIDE DEF place
<1>2. IdentInv' /\ WaitingInv' /\ TaskInv' /\ ServerInv' /\ AnswerInv' /\ FuturesSound'
  BY <1>1, RegisterInv
<1>3. serial' \in Request
  BY <1>1, RegisterStep
<1>4. TypeOK'
  BY <1>1, <1>3, RegisterStep DEF TypeOK, IInv, owner
<1> QED BY <1>2, <1>4 DEF IInv

LEMMA SpawnedInv == ASSUME IInv, Spawned PROVE IInv'
<1> DEFINE place == IF Busy THEN "lock" ELSE "wire"
<1>1. Owner \in Tasks /\ Register(Owner, place) /\ place \in Places
  BY DEF Spawned, Tasks, Places
<1> HIDE DEF place
<1>2. /\ queue' \subseteq queue \cup {serial'} /\ executed' = executed /\ doomed' = {} /\ dispatcher' = "running"
      /\ inbox' = inbox \/ inbox' = <<>>
  BY DEF Spawned
<1>3. IdentInv' /\ WaitingInv' /\ TaskInv' /\ ServerInv' /\ AnswerInv' /\ FuturesSound'
  BY <1>1, <1>2, RegisterInv
<1>4. TypeOK'
  <2>0. << >> \in Seq(Message) /\ inbox \in Seq(Message)
    BY DEF IInv, TypeOK
  <2>1. inbox' \in Seq(Message)
    BY <1>2, <2>0
  <2>2. /\ answers' \in [Request -> 0..MaxRequests]
        /\ queue' \subseteq Request /\ executed' \subseteq Request /\ doomed' \subseteq Request
    BY <1>1, <1>2, RegisterStep DEF IInv, TypeOK
  <2>3. /\ transport' \in {"stdio", "sse"} /\ phase' = "handshake" /\ started' = TRUE
        /\ initialized' \in BOOLEAN /\ server' = "up"
        /\ noise' \in 0..MaxNoise /\ starts' \in 0..MaxStarts
    BY DEF IInv, TypeOK, Spawned
  <2>4. /\ nextId' \in 1..(MaxRequests + 1) /\ serial' \in 0..MaxRequests
        /\ ident' \in [Request -> 0..MaxRequests]
        /\ fut' \in [Request ->
             {"none", "waiting", "answer", "failed", "cancelled"}]
        /\ pending' \subseteq Request
        /\ at' \in [Tasks -> 0..MaxRequests] /\ sending' \in [Tasks -> Places]
        /\ outcome' \in [Request -> {"none", "open", "ok", "error"}]
    BY <1>1, RegisterStep
  <2> QED BY <1>2, <2>1, <2>2, <2>3, <2>4 DEF TypeOK
<1> QED BY <1>3, <1>4 DEF IInv

\* What a task that leaves its request leaves of the others'.
LEMMA RaiseInv ==
    ASSUME IInv, NEW t \in Tasks, at[t] # 0, Raise(t),
           nextId' = nextId, serial' = serial, ident' = ident,
           sending' = [sending EXCEPT ![t] = "no"], queue' = queue, executed' = executed
    PROVE  /\ at' \in [Tasks -> 0..MaxRequests] /\ sending' \in [Tasks -> Places]
           /\ outcome' \in [Request -> {"none", "open", "ok", "error"}]
           /\ phase' \in {"new", "spawning", "handshake", "open", "closing", "closed", "failed"}
           /\ at[t] \in Request /\ at[t] <= serial
           /\ \A r \in Request : outcome'[r] = "none" <=> outcome[r] = "none"
           /\ TaskInv' /\ ServerInv'
<1> USE ClientAssumption
<1>0. TypeOK /\ IdentInv /\ TaskInv /\ ServerInv
  BY DEF IInv
<1>1. /\ at' = [at EXCEPT ![t] = 0] /\ outcome' = [outcome EXCEPT ![at[t]] = "error"]
  BY DEF Raise
<1>2. at[t] \in Request /\ at[t] <= serial
  BY <1>0 DEF TypeOK, Request, TaskInv
<1>3. /\ at' \in [Tasks -> 0..MaxRequests] /\ sending' \in [Tasks -> Places]
      /\ at'[t] = 0 /\ \A u \in Tasks \ {t} : at'[u] = at[u]
  BY <1>0, <1>1 DEF TypeOK, Places
<1>4. /\ outcome' \in [Request -> {"none", "open", "ok", "error"}]
      /\ \A r \in Request \ {at[t]} : outcome'[r] = outcome[r]
  BY <1>0, <1>1 DEF TypeOK
<1>5. phase' \in {"new", "spawning", "handshake", "open", "closing", "closed", "failed"}
  BY <1>0 DEF Raise, TypeOK
<1>6. \A r \in Request : outcome'[r] = "none" <=> outcome[r] = "none"
  <2>1. outcome[at[t]] # "none" /\ outcome'[at[t]] # "none"
    BY <1>0, <1>1, <1>2 DEF TaskInv, TypeOK
  <2> QED BY <1>4, <2>1
<1>7. TaskInv'
  <2>1. ASSUME NEW u \in Tasks, at'[u] # 0 PROVE at'[u] <= serial' /\ outcome'[at'[u]] = "open"
    <3>1. u # t /\ at'[u] = at[u] /\ at[u] # at[t] /\ at[u] \in Request
      BY <2>1, <1>0, <1>3 DEF TaskInv, TypeOK, Request
    <3> QED BY <3>1, <2>1, <1>0, <1>4 DEF TaskInv
  <2>2. \A u, v \in Tasks : at'[u] # 0 /\ at'[u] = at'[v] => u = v
    BY <1>0, <1>3 DEF TaskInv
  <2>3. \A u \in Tasks : sending'[u] # "no" => at'[u] # 0
    BY <1>0, <1>3 DEF TaskInv, TypeOK
  <2> QED BY <2>1, <2>2, <2>3 DEF TaskInv
<1>8. ServerInv'
  BY <1>0, <1>3 DEF ServerInv, TypeOK
<1> QED BY <1>2, <1>3, <1>4, <1>5, <1>6, <1>7, <1>8

\* To take the lock and to come back from the send only move the request on.
LEMMA SentInv == ASSUME IInv, NEW t \in Tasks, Acquire(t) \/ Sent(t) PROVE IInv'
<1>0. /\ TypeOK /\ IdentInv /\ WaitingInv /\ TaskInv /\ ServerInv /\ AnswerInv /\ FuturesSound
      /\ UNCHANGED <<transport, phase, started, initialized, starts, dispatcher, nextId, serial,
                     ident, at, outcome, fut, answers, pending, server, executed, inbox, noise,
                     doomed>>
  BY DEF IInv, Acquire, Sent, owner, futures, remote
<1>1. at[t] # 0
  BY <1>0 DEF Acquire, Sent, TaskInv
<1>2. at[t] \in Request /\ at[t] \in 1..serial
  BY <1>0, <1>1, ClientAssumption DEF TaskInv, TypeOK, Request
<1>3. /\ sending' = [sending EXCEPT ![t] = "wire"] \/ sending' = [sending EXCEPT ![t] = "no"]
      /\ queue' \subseteq queue \cup {at[t]}
  BY DEF Acquire, Sent, remote
<1>4. sending' \in [Tasks -> Places] /\ \A u \in Tasks : sending'[u] # "no" => sending[u] # "no" \/ u = t
  BY <1>0, <1>3 DEF TypeOK, Places
<1>5. TypeOK'
  BY <1>0, <1>2, <1>3, <1>4 DEF TypeOK
<1>6. TaskInv'
  BY <1>0, <1>1, <1>4 DEF TaskInv
<1>7. ServerInv'
  BY <1>0, <1>2, <1>3 DEF ServerInv
<1>8. IdentInv' /\ WaitingInv' /\ AnswerInv' /\ FuturesSound'
  BY <1>0 DEF IdentInv, WaitingInv, AnswerInv, FuturesSound, MatchedAnswer, InFlightFailed
<1> QED BY <1>5, <1>6, <1>7, <1>8 DEF IInv

LEMMA SendFailInv == ASSUME IInv, NEW t \in Tasks, SendFail(t) PROVE IInv'
<1>0. /\ TypeOK /\ IdentInv /\ WaitingInv /\ AnswerInv /\ FuturesSound
      /\ at[t] # 0
  BY DEF IInv, SendFail, TaskInv
<1>1. /\ at' \in [Tasks -> 0..MaxRequests] /\ sending' \in [Tasks -> Places]
      /\ outcome' \in [Request -> {"none", "open", "ok", "error"}]
      /\ phase' \in {"new", "spawning", "handshake", "open", "closing", "closed", "failed"}
      /\ \A r \in Request : outcome'[r] = "none" <=> outcome[r] = "none"
      /\ TaskInv' /\ ServerInv'
  BY <1>0, RaiseInv DEF SendFail, remote
<1>2. TypeOK'
  BY <1>0, <1>1 DEF TypeOK, SendFail, futures, remote
<1>3. IdentInv' /\ WaitingInv'
  BY <1>0, <1>1 DEF SendFail, IdentInv, WaitingInv, futures
<1>4. AnswerInv' /\ FuturesSound'
  BY <1>0 DEF SendFail, AnswerInv, FuturesSound, MatchedAnswer, InFlightFailed, futures, remote
<1> QED BY <1>1, <1>2, <1>3, <1>4 DEF IInv

\* The entry removed is the one of the request that timed out.
LEMMA TimeoutInv == ASSUME IInv, NEW t \in Tasks, Timeout(t) PROVE IInv'
<1> USE ClientAssumption
<1>0. /\ TypeOK /\ IdentInv /\ WaitingInv /\ AnswerInv /\ FuturesSound
      /\ at[t] # 0
  BY DEF IInv, Timeout
<1>1. /\ at' \in [Tasks -> 0..MaxRequests] /\ sending' \in [Tasks -> Places]
      /\ outcome' \in [Request -> {"none", "open", "ok", "error"}]
      /\ phase' \in {"new", "spawning", "handshake", "open", "closing", "closed", "failed"}
      /\ at[t] \in Request /\ at[t] <= serial
      /\ \A r \in Request : outcome'[r] = "none" <=> outcome[r] = "none"
      /\ TaskInv' /\ ServerInv'
  <2>1. sending' = [sending EXCEPT ![t] = "no"]
    BY <1>0 DEF Timeout, TypeOK
  <2> QED BY <1>0, <2>1, RaiseInv DEF Timeout, remote
<1>2. /\ fut' = [fut EXCEPT ![at[t]] = "cancelled"] /\ fut[at[t]] = "waiting"
      /\ pending' = {p \in pending : ident[p] # ident[at[t]]}
  BY DEF Timeout
<1>3. /\ fut' \in [Request -> {"none", "waiting", "answer", "failed", "cancelled"}]
      /\ fut'[at[t]] = "cancelled" /\ \A r \in Request \ {at[t]} : fut'[r] = fut[r]
  BY <1>0, <1>1, <1>2 DEF TypeOK
<1>4. pending' = pending \ {at[t]}
  <2>1. \A p \in pending : ident[p] = p /\ ident[at[t]] = at[t]
    BY <1>0, <1>1 DEF IdentInv, TypeOK, Request
  <2> QED BY <2>1, <1>2
<1>5. TypeOK'
  BY <1>0, <1>1, <1>3, <1>4 DEF TypeOK, Timeout, remote
<1>6. IdentInv'
  BY <1>0, <1>1, <1>3, <1>4 DEF Timeout, IdentInv, TypeOK, Request
<1>7. WaitingInv'
  BY <1>0, <1>1, <1>3, <1>4 DEF WaitingInv
<1>8. AnswerInv'
  BY <1>0, <1>1, <1>3 DEF AnswerInv, Timeout, remote
<1>9. FuturesSound'
  BY <1>0, <1>1, <1>3 DEF FuturesSound, MatchedAnswer, InFlightFailed, Timeout, TypeOK
<1> QED BY <1>1, <1>5, <1>6, <1>7, <1>8, <1>9 DEF IInv

LEMMA CancelInv == ASSUME IInv, NEW c \in Tasks, Cancel(c) PROVE IInv'
<1> USE ClientAssumption
<1>0. /\ TypeOK /\ IdentInv /\ WaitingInv /\ AnswerInv /\ FuturesSound
      /\ at[c] # 0
  BY DEF IInv, Cancel
<1>1. /\ at' \in [Tasks -> 0..MaxRequests] /\ sending' \in [Tasks -> Places]
      /\ outcome' \in [Request -> {"none", "open", "ok", "error"}]
      /\ phase' \in {"new", "spawning", "handshake", "open", "closing", "closed", "failed"}
      /\ at[c] \in Request /\ at[c] <= serial
      /\ \A r \in Request : outcome'[r] = "none" <=> outcome[r] = "none"
      /\ TaskInv' /\ ServerInv'
  BY <1>0, RaiseInv DEF Cancel, remote
<1>2. \/ fut' = [fut EXCEPT ![at[c]] = "cancelled"] /\ fut[at[c]] = "waiting"
      \/ fut' = fut
  BY DEF Cancel
<1>3. /\ fut' \in [Request -> {"none", "waiting", "answer", "failed", "cancelled"}]
      /\ \A r \in Request \ {at[c]} : fut'[r] = fut[r]
      /\ fut'[at[c]] \in {fut[at[c]], "cancelled"}
  BY <1>0, <1>1, <1>2 DEF TypeOK
<1>5. TypeOK'
  BY <1>0, <1>1, <1>3 DEF TypeOK, Cancel, remote
<1>6. IdentInv'
  BY <1>0, <1>1, <1>3 DEF Cancel, IdentInv, TypeOK, Request
<1>7. WaitingInv'
  BY <1>0, <1>1, <1>3 DEF WaitingInv, Cancel
<1>8. AnswerInv'
  BY <1>0, <1>1, <1>3 DEF AnswerInv, Cancel, remote
<1>9. FuturesSound'
  BY <1>0, <1>1, <1>3 DEF FuturesSound, MatchedAnswer, InFlightFailed, Cancel, TypeOK
<1> QED BY <1>1, <1>5, <1>6, <1>7, <1>8, <1>9 DEF IInv

LEMMA ResumeInv == ASSUME IInv, NEW t \in Tasks, Resume(t) PROVE IInv'
<1> USE ClientAssumption
<1>0. /\ TypeOK /\ IdentInv /\ WaitingInv /\ TaskInv /\ ServerInv /\ AnswerInv /\ FuturesSound
      /\ at[t] # 0 /\ sending[t] = "no"
      /\ UNCHANGED <<transport, started, starts, dispatcher, nextId, serial, ident, sending,
                     fut, answers, pending, server, queue, executed, inbox, noise, doomed>>
  BY DEF IInv, Resume, futures, remote
<1>1. CASE /\ at' = [at EXCEPT ![t] = 0]
           /\ outcome' = [outcome EXCEPT ![at[t]] = "ok"]
           /\ phase' \in {phase, "open"} /\ initialized' \in {initialized, TRUE}
  <2>1. at[t] \in Request /\ at[t] <= serial
    BY <1>0 DEF TypeOK, Request, TaskInv
  <2>2. /\ at' \in [Tasks -> 0..MaxRequests]
        /\ at'[t] = 0 /\ \A u \in Tasks \ {t} : at'[u] = at[u]
    BY <1>0, <1>1 DEF TypeOK
  <2>3. /\ outcome' \in [Request -> {"none", "open", "ok", "error"}]
        /\ \A r \in Request \ {at[t]} : outcome'[r] = outcome[r]
    BY <1>0, <1>1 DEF TypeOK
  <2>4. TypeOK'
    BY <1>0, <1>1, <2>2, <2>3 DEF TypeOK
  <2>5. IdentInv'
    <3>1. outcome[at[t]] = "open" /\ outcome'[at[t]] = "ok"
      BY <1>0, <1>1, <2>1 DEF TaskInv, TypeOK
    <3>2. \A r \in Request : outcome'[r] = "none" <=> outcome[r] = "none"
      BY <2>3, <3>1
    <3> QED BY <1>0, <3>2 DEF IdentInv
  <2>6. TaskInv'
    <3>1. ASSUME NEW u \in Tasks, at'[u] # 0
          PROVE  at'[u] <= serial' /\ outcome'[at'[u]] = "open"
      <4>1. u # t /\ at'[u] = at[u] /\ at[u] # at[t] /\ at[u] \in Request
        BY <3>1, <1>0, <2>2 DEF TaskInv, TypeOK, Request
      <4> QED BY <4>1, <3>1, <1>0, <2>3 DEF TaskInv
    <3>2. \A u, v \in Tasks : at'[u] # 0 /\ at'[u] = at'[v] => u = v
      BY <1>0, <2>2 DEF TaskInv
    <3>3. \A u \in Tasks : sending'[u] # "no" => at'[u] # 0
      BY <1>0, <2>2 DEF TaskInv, TypeOK
    <3> QED BY <3>1, <3>2, <3>3 DEF TaskInv
  <2>7. ServerInv'
    BY <1>0, <2>2 DEF ServerInv, TypeOK
  <2>8. WaitingInv' /\ AnswerInv' /\ FuturesSound'
    BY <1>0 DEF WaitingInv, AnswerInv, FuturesSound, MatchedAnswer, InFlightFailed
  <2> QED BY <2>4, <2>5, <2>6, <2>7, <2>8 DEF IInv
<1>2. CASE Raise(t) /\ UNCHANGED initialized
  <2>0. sending' = [sending EXCEPT ![t] = "no"] /\ nextId' = nextId /\ serial' = serial /\ ident' = ident
        /\ queue' = queue /\ executed' = executed
    BY <1>0 DEF TypeOK
  <2>1. /\ at' \in [Tasks -> 0..MaxRequests] /\ sending' \in [Tasks -> Places]
        /\ outcome' \in [Request -> {"none", "open", "ok", "error"}]
        /\ phase' \in {"new", "spawning", "handshake", "open", "closing", "closed", "failed"}
        /\ \A r \in Request : outcome'[r] = "none" <=> outcome[r] = "none"
        /\ TaskInv' /\ ServerInv'
    BY <1>0, <1>2, <2>0, RaiseInv
  <2>2. TypeOK'
    BY <1>0, <1>2, <2>1 DEF TypeOK
  <2>3. IdentInv' /\ WaitingInv'
    BY <1>0, <2>1 DEF IdentInv, WaitingInv
  <2>4. AnswerInv' /\ FuturesSound'
    BY <1>0 DEF AnswerInv, FuturesSound, MatchedAnswer, InFlightFailed
  <2> QED BY <2>1, <2>2, <2>3, <2>4 DEF IInv
<1>3. \/ /\ at' = [at EXCEPT ![t] = 0]
         /\ outcome' = [outcome EXCEPT ![at[t]] = "ok"]
         /\ phase' \in {phase, "open"} /\ initialized' \in {initialized, TRUE}
      \/ Raise(t) /\ UNCHANGED initialized
  BY DEF Resume
<1> QED BY <1>1, <1>2, <1>3

\* The dispatcher dies: every future that is not done is in _pending, so it fails.
LEMMA DieInv ==
    ASSUME IInv, Die, UNCHANGED <<owner, requests, answers, pending, server, queue, executed>>,
           inbox' \in Seq(Message), noise' \in 0..MaxNoise,
           \A i \in DOMAIN inbox' : Fits(inbox'[i], executed)
    PROVE  IInv'
<1> USE ClientAssumption DEF IInv
<1>1. /\ dispatcher' = "dead" /\ doomed' = 1..serial
      /\ fut' \in [Request -> {"none", "waiting", "answer", "failed", "cancelled"}]
      /\ \A r \in Request :
           /\ fut'[r] # "waiting"
           /\ fut'[r] = fut[r] \/ (fut[r] = "waiting" /\ fut'[r] = "failed")
  <2>1. /\ dispatcher' = "dead" /\ doomed' = 1..serial
        /\ fut' = [r \in Request |->
             IF r \in pending /\ fut[r] = "waiting" THEN "failed" ELSE fut[r]]
    BY DEF Die
  <2>2. /\ fut \in [Request -> {"none", "waiting", "answer", "failed", "cancelled"}]
        /\ \A r \in Request : fut[r] = "waiting" => r \in pending
    BY DEF TypeOK, WaitingInv
  <2> HIDE DEF IInv
  <2>3. ASSUME NEW r \in Request
        PROVE  /\ fut'[r] \in {"none", "waiting", "answer", "failed", "cancelled"}
               /\ fut'[r] # "waiting"
               /\ fut'[r] = fut[r] \/ (fut[r] = "waiting" /\ fut'[r] = "failed")
    <3>1. CASE fut[r] = "waiting"
      BY <3>1, <2>1, <2>2
    <3>2. CASE fut[r] # "waiting"
      BY <3>2, <2>1, <2>2
    <3> QED BY <3>1, <3>2
  <2>4. fut' \in [Request -> {"none", "waiting", "answer", "failed", "cancelled"}]
    BY <2>1, <2>3, Zenon
  <2> QED BY <2>1, <2>3, <2>4
<1>2. 1..serial \subseteq Request
  BY DEF TypeOK, Request
<1>3. TypeOK'
  BY <1>1, <1>2 DEF TypeOK, owner, requests
<1>4. IdentInv'
  BY <1>1, <1>2 DEF IdentInv, requests
<1>5. WaitingInv' /\ FuturesSound'
  BY <1>1, <1>2 DEF WaitingInv, FuturesSound, MatchedAnswer, InFlightFailed
<1>6. TaskInv' /\ ServerInv'
  BY DEF TaskInv, ServerInv, requests
<1>7. AnswerInv'
  BY <1>1 DEF AnswerInv
<1> QED BY <1>3, <1>4, <1>5, <1>6, <1>7

\* The rest of the inbox is as sound as the inbox was.
LEMMA InboxTail ==
    ASSUME IInv, inbox # <<>>
    PROVE  /\ Head(inbox) \in Message /\ Tail(inbox) \in Seq(Message)
           /\ Fits(Head(inbox), executed)
           /\ \A i \in DOMAIN Tail(inbox) : Fits(Tail(inbox)[i], executed)
<1>1. inbox \in Seq(Message)
  BY DEF IInv, TypeOK
<1>2. /\ Head(inbox) = inbox[1] /\ 1 \in DOMAIN inbox /\ inbox[1] \in Message
      /\ Tail(inbox) \in Seq(Message)
      /\ \A i \in DOMAIN Tail(inbox) : i + 1 \in DOMAIN inbox /\ Tail(inbox)[i] = inbox[i + 1]
  BY <1>1
<1> QED BY <1>2 DEF IInv, AnswerInv

\* The one entry under the id of an answer is that of the request it was given to.
LEMMA ResolveStep ==
    ASSUME IInv, NEW m \in Message,
           m.id = m.of, m.of \in executed, Resolve(m)
    PROVE  /\ Match(m.id) \subseteq {m.of} /\ pending' = pending \ {m.of}
           /\ m.of \in Request
           /\ \A r \in Request \ {m.of} : fut'[r] = fut[r] /\ answers'[r] = answers[r]
           /\ \/ fut'[m.of] = fut[m.of] /\ answers'[m.of] = answers[m.of] /\ fut[m.of] # "waiting"
              \/ fut[m.of] = "waiting" /\ fut'[m.of] = "answer" /\ answers'[m.of] = m.of
           /\ fut' \in [Request ->
                {"none", "waiting", "answer", "failed", "cancelled"}]
           /\ answers' \in [Request -> 0..MaxRequests]
<1> USE ClientAssumption DEF IInv
<1>1. m.of \in Request /\ m.of \in 1..serial /\ m.of \in 0..MaxRequests
  <2>1. m.of \in 1..serial /\ serial \in 0..MaxRequests
    BY DEF ServerInv, TypeOK
  <2> QED BY <2>1 DEF Request
<1>2. \A p \in pending : ident[p] = p
  BY DEF IdentInv, TypeOK, Request
<1>3. Match(m.id) = pending \cap {m.of}
  BY <1>2 DEF Match
<1>4. {r \in Match(m.id) : fut[r] = "waiting"} = IF fut[m.of] = "waiting" THEN {m.of} ELSE {}
  BY <1>1, <1>3 DEF WaitingInv
<1> DEFINE W == {r \in Match(m.id) : fut[r] = "waiting"}
<1>5. /\ pending' = pending \ Match(m.id)
      /\ fut' = [r \in Request |-> IF r \in W THEN "answer" ELSE fut[r]]
      /\ answers' = [r \in Request |-> IF r \in W THEN m.of ELSE answers[r]]
  BY DEF Resolve
<1>6. W = IF fut[m.of] = "waiting" THEN {m.of} ELSE {}
  BY <1>4
<1> HIDE DEF W
<1>7. /\ fut' \in [Request -> {"none", "waiting", "answer", "failed", "cancelled"}]
      /\ answers' \in [Request -> 0..MaxRequests]
  BY <1>1, <1>5 DEF TypeOK
<1> QED BY <1>1, <1>3, <1>5, <1>6, <1>7

\* An answer with an id that was never given finds nothing.
LEMMA StrayStep ==
    ASSUME IInv, NEW m \in Message, m.id = 0, Resolve(m)
    PROVE  UNCHANGED <<fut, answers, pending>>
<1>1. Match(m.id) = {}
  <2>1. \A p \in pending : ident[p] = p /\ p # 0
    BY DEF IInv, IdentInv, TypeOK, Request
  <2> QED BY <2>1 DEF Match
<1>2. /\ fut \in [Request -> {"none", "waiting", "answer", "failed", "cancelled"}]
      /\ answers \in [Request -> 0..MaxRequests]
  BY DEF IInv, TypeOK
<1>3. /\ pending' = pending
      /\ fut' = [r \in Request |-> fut[r]] /\ answers' = [r \in Request |-> answers[r]]
  BY <1>1 DEF Resolve
<1> QED BY <1>2, <1>3

LEMMA DispatchInv == ASSUME IInv, Dispatch PROVE IInv'
<1> DEFINE m == Head(inbox)
<1>0. /\ TypeOK /\ IdentInv /\ WaitingInv /\ TaskInv /\ ServerInv /\ AnswerInv /\ FuturesSound
      /\ dispatcher = "running" /\ inbox # <<>> /\ inbox' = Tail(inbox)
      /\ UNCHANGED <<transport, phase, started, initialized, starts, nextId, serial, ident, at,
                     sending, outcome, server, queue, executed, noise>>
  BY DEF IInv, Dispatch, owner, requests
<1>1. /\ m \in Message /\ inbox' \in Seq(Message)
      /\ Fits(m, executed) /\ \A i \in DOMAIN inbox' : Fits(inbox'[i], executed)
  BY <1>0, InboxTail
<1>2. \/ m.kind = "answer" /\ Resolve(m) /\ UNCHANGED <<dispatcher, doomed>>
      \/ Die /\ UNCHANGED <<answers, pending>>
  BY DEF Dispatch
<1> HIDE DEF m
<1>3. CASE m.kind = "answer" /\ m.of # 0 /\ Resolve(m) /\ UNCHANGED <<dispatcher, doomed>>
  <2>1. /\ pending' = pending \ {m.of} /\ m.of \in Request /\ m.of \in executed
        /\ \A r \in Request \ {m.of} : fut'[r] = fut[r] /\ answers'[r] = answers[r]
        /\ \/ fut'[m.of] = fut[m.of] /\ answers'[m.of] = answers[m.of] /\ fut[m.of] # "waiting"
           \/ fut[m.of] = "waiting" /\ fut'[m.of] = "answer" /\ answers'[m.of] = m.of
        /\ fut' \in [Request -> {"none", "waiting", "answer", "failed", "cancelled"}]
        /\ answers' \in [Request -> 0..MaxRequests]
    <3>1. m.id = m.of /\ m.of \in executed
      BY <1>1, <1>3 DEF Fits
    <3> QED BY <1>1, <1>3, <3>1, ResolveStep
  <2>2. m.of \in 1..serial
    BY <1>0, <2>1 DEF ServerInv
  <2>3. TypeOK'
    BY <1>0, <1>1, <1>3, <2>1 DEF TypeOK
  <2>4. IdentInv'
    BY <1>0, <1>3, <2>1, <2>2, ClientAssumption DEF IdentInv, TypeOK, Request
  <2>5. WaitingInv' /\ FuturesSound'
    BY <1>0, <1>3, <2>1 DEF WaitingInv, FuturesSound, MatchedAnswer, InFlightFailed
  <2>6. TaskInv' /\ ServerInv'
    BY <1>0 DEF TaskInv, ServerInv
  <2>7. AnswerInv'
    BY <1>0, <1>1, <2>1 DEF AnswerInv
  <2> QED BY <2>3, <2>4, <2>5, <2>6, <2>7 DEF IInv
<1>4. CASE m.kind = "answer" /\ m.of = 0 /\ Resolve(m) /\ UNCHANGED <<dispatcher, doomed>>
  <2>0. UNCHANGED <<fut, answers, pending>>
    BY <1>0, <1>1, <1>4, StrayStep DEF Fits
  <2>1. TypeOK' /\ AnswerInv'
    BY <1>0, <1>1, <1>4, <2>0 DEF TypeOK, AnswerInv
  <2>2. IdentInv' /\ WaitingInv' /\ TaskInv' /\ ServerInv' /\ FuturesSound'
    BY <1>0, <1>4, <2>0 DEF IdentInv, WaitingInv, TaskInv, ServerInv, FuturesSound, MatchedAnswer,
                      InFlightFailed
  <2> QED BY <2>1, <2>2 DEF IInv
<1>5. CASE Die /\ UNCHANGED <<answers, pending>>
  <2>1. UNCHANGED <<owner, requests, answers, pending, server, queue, executed>>
    BY <1>0, <1>5 DEF owner, requests
  <2>2. noise' \in 0..MaxNoise
    BY <1>0 DEF TypeOK
  <2> QED BY <1>1, <1>5, <2>1, <2>2, DieInv
<1> QED BY <1>2, <1>3, <1>4, <1>5

LEMMA ReplyInv ==
    ASSUME IInv, NEW r \in Request, Reply(r)
    PROVE  IInv'
<1> DEFINE m == [kind |-> "answer", id |-> ident[r], of |-> r]
<1>0. /\ TypeOK /\ IdentInv /\ WaitingInv /\ TaskInv /\ ServerInv /\ AnswerInv /\ FuturesSound
      /\ r \in queue /\ queue' = queue /\ executed' = executed \cup {r}
      /\ inbox' = Append(inbox, m)
      /\ UNCHANGED <<transport, phase, started, initialized, starts, nextId, serial, ident, at,
                     sending, outcome, fut, answers, pending, dispatcher, server, doomed>>
      /\ noise' = noise \/ (noise < MaxNoise /\ noise' = noise + 1)
  BY DEF IInv, Reply, owner, requests, futures
<1>1. ident[r] = r /\ r \in 1..serial /\ r \in 0..MaxRequests
  BY <1>0, ClientAssumption DEF IdentInv, ServerInv, TypeOK, Request
<1>2. m \in Message /\ m.id = r /\ m.of = r
  <2>1. m = [kind |-> "answer", id |-> r, of |-> r]
    BY <1>1
  <2> HIDE DEF m
  <2> QED BY <1>1, <2>1 DEF Message
<1> HIDE DEF m
<1>3. /\ inbox' \in Seq(Message)
      /\ \A i \in DOMAIN inbox' : (i \in DOMAIN inbox /\ inbox'[i] = inbox[i]) \/ inbox'[i] = m
  BY <1>0, <1>2 DEF TypeOK
<1>4. TypeOK'
  <2>1. noise' \in 0..MaxNoise
    BY <1>0, ClientAssumption DEF TypeOK
  <2> QED BY <1>0, <1>3, <2>1 DEF TypeOK
<1>5. IdentInv' /\ WaitingInv' /\ TaskInv' /\ FuturesSound'
  BY <1>0 DEF IdentInv, WaitingInv, TaskInv, FuturesSound, MatchedAnswer, InFlightFailed
<1>6. ServerInv'
  BY <1>0, <1>1 DEF ServerInv
<1>7. AnswerInv'
  <2>1. \A i \in DOMAIN inbox' : Fits(inbox'[i], executed')
    BY <1>0, <1>2, <1>3 DEF AnswerInv, Fits
  <2> QED BY <1>0, <2>1 DEF AnswerInv
<1> QED BY <1>4, <1>5, <1>6, <1>7 DEF IInv

\* The owner and the server's other steps, which touch no request.
LEMMA QuietInv ==
    ASSUME IInv,
           \/ Start \/ StartAgain \/ SpawnFail \/ Close \/ Closed \/ ServerDies
           \/ \E kind \in {"answer", "junk"} : Noise(kind)
    PROVE  IInv'
<1>0. TypeOK /\ IdentInv /\ WaitingInv /\ TaskInv /\ ServerInv /\ AnswerInv /\ FuturesSound
  BY DEF IInv
<1>1. /\ UNCHANGED <<nextId, serial, ident, at, sending, outcome, fut, answers, pending,
                     queue, executed, doomed>>
      /\ dispatcher' = "dead" => dispatcher = "dead"
  BY DEF Start, StartAgain, SpawnFail, Close, Closed, ServerDies, Noise, owner, requests,
         futures, remote
<1>2. IdentInv' /\ WaitingInv' /\ TaskInv' /\ ServerInv' /\ FuturesSound'
  BY <1>0, <1>1 DEF IdentInv, WaitingInv, TaskInv, ServerInv, FuturesSound, MatchedAnswer,
                    InFlightFailed
<1>3. ASSUME NEW kind \in {"answer", "junk"}, Noise(kind) PROVE TypeOK' /\ AnswerInv'
  <2> DEFINE m == [kind |-> kind, id |-> 0, of |-> 0]
  <2>1. /\ inbox' = Append(inbox, m) /\ noise < MaxNoise /\ noise' = noise + 1
        /\ UNCHANGED <<transport, phase, started, initialized, starts, dispatcher, server>>
    BY <1>3 DEF Noise, owner
  <2>2. m \in Message /\ Fits(m, executed)
    BY ClientAssumption DEF Message, Fits
  <2> HIDE DEF m
  <2>3. /\ inbox' \in Seq(Message)
        /\ \A i \in DOMAIN inbox' : (i \in DOMAIN inbox /\ inbox'[i] = inbox[i]) \/ inbox'[i] = m
    BY <1>0, <2>1, <2>2 DEF TypeOK
  <2>4. noise' \in 0..MaxNoise
    BY <1>0, <2>1, ClientAssumption DEF TypeOK
  <2>5. TypeOK'
    BY <1>0, <1>1, <2>1, <2>3, <2>4 DEF TypeOK
  <2> QED BY <1>0, <1>1, <2>2, <2>3, <2>5 DEF AnswerInv
<1>4. ASSUME Start \/ StartAgain \/ SpawnFail \/ Close \/ Closed \/ ServerDies
      PROVE  TypeOK' /\ AnswerInv'
  <2>1. inbox' = inbox /\ noise' = noise
    BY <1>4 DEF Start, StartAgain, SpawnFail, Close, Closed, ServerDies, remote
  <2>2. /\ transport' = transport
        /\ phase' \in {"new", "spawning", "handshake", "open", "closing", "closed", "failed"}
        /\ started' \in BOOLEAN /\ initialized' \in BOOLEAN
        /\ dispatcher' \in {"none", "running", "dead"}
        /\ server' \in {"none", "up", "down"} /\ starts' \in 0..MaxStarts
    <3>1. CASE Start \/ StartAgain
      BY <1>0, <3>1, ClientAssumption DEF TypeOK, Start, StartAgain, remote
    <3>2. CASE SpawnFail \/ Close \/ Closed
      BY <1>0, <3>2 DEF TypeOK, SpawnFail, Close, Closed, remote
    <3>3. CASE ServerDies
      BY <1>0, <3>3 DEF TypeOK, ServerDies, owner
    <3> QED BY <1>4, <3>1, <3>2, <3>3
  <2>3. TypeOK'
    BY <1>0, <1>1, <2>1, <2>2 DEF TypeOK
  <2> QED BY <1>0, <1>1, <2>1, <2>3 DEF AnswerInv
<1> QED BY <1>2, <1>3, <1>4 DEF IInv

\* The dispatcher's ends: end of file, and the timeout of recv.
LEMMA EndInv == ASSUME IInv, EndOfFile \/ IdleTimeout PROVE IInv'
<1>1. /\ Die /\ UNCHANGED <<owner, requests, answers, pending, server, queue, executed>>
      /\ inbox' = inbox /\ (noise' = noise \/ (noise < MaxNoise /\ noise' = noise + 1))
  BY DEF EndOfFile, IdleTimeout, remote
<1>2. /\ inbox' \in Seq(Message) /\ noise' \in 0..MaxNoise
      /\ \A i \in DOMAIN inbox' : Fits(inbox'[i], executed)
  BY <1>1, ClientAssumption DEF IInv, TypeOK, AnswerInv
<1> QED BY <1>1, <1>2, DieInv

LEMMA StutterInv == ASSUME IInv, UNCHANGED vars PROVE IInv'
BY DEF IInv, TypeOK, IdentInv, WaitingInv, TaskInv, ServerInv, AnswerInv, FuturesSound,
       MatchedAnswer, InFlightFailed, vars

LEMMA StepInv == IInv /\ [Next]_vars => IInv'
<1> SUFFICES ASSUME IInv, [Next]_vars PROVE IInv'
  OBVIOUS
<1>1. CASE Owning
  BY <1>1, QuietInv, SpawnedInv DEF Owning
<1>2. ASSUME NEW c \in Callers, Call(c) PROVE IInv'
  BY <1>2, CallInv
<1>3. ASSUME NEW t \in Tasks,
             Acquire(t) \/ Sent(t) \/ SendFail(t) \/ Cancel(t) \/ Timeout(t) \/ Resume(t)
      PROVE  IInv'
  BY <1>3, SentInv, SendFailInv, CancelInv, TimeoutInv, ResumeInv
<1>4. CASE Dispatch \/ EndOfFile \/ IdleTimeout
  BY <1>4, DispatchInv, EndInv
<1>5. ASSUME NEW r \in Request, Reply(r) PROVE IInv'
  BY <1>5, ReplyInv
<1>6. CASE ServerDies \/ \E kind \in {"answer", "junk"} : Noise(kind)
  BY <1>6, QuietInv
<1>7. CASE UNCHANGED vars
  BY <1>7, StutterInv
<1> QED BY <1>1, <1>2, <1>3, <1>4, <1>5, <1>6, <1>7 DEF Next

LEMMA AlwaysIInv == Spec => []IInv
<1> QED BY InitInv, StepInv, PTL DEF Spec

\* Type correctness of the client's model, for any callers and bounds.
THEOREM ClientTypeCorrect == Spec => []TypeOK
<1>1. IInv => TypeOK
  BY DEF IInv
<1> QED BY <1>1, AlwaysIInv, PTL

\* The future of a request is only ever resolved by the server's answer to that
\* request, and when the dispatcher dies no request made before waits for an
\* answer nobody would read, also when answers come before the send returns,
\* twice, or with ids that were never given: _next_id never repeats, over
\* cancellations, timeouts, closes and restarts, and an entry leaves _pending only
\* with its future done.
THEOREM AlwaysFuturesSound == Spec => []FuturesSound
<1>1. IInv => FuturesSound
  BY DEF IInv
<1> QED BY <1>1, AlwaysIInv, PTL

-----------------------------------------------------------------------------
\* The step invariant behind SetOnce.
LEMMA SetOnceStep ==
    ASSUME IInv, [Next]_vars
    PROVE  \A r \in Request : fut[r] \notin {"none", "waiting"} => fut'[r] = fut[r]
<1> SUFFICES ASSUME NEW r \in Request, fut[r] \notin {"none", "waiting"}
             PROVE  fut'[r] = fut[r]
  OBVIOUS
<1>0. TypeOK /\ IdentInv /\ TaskInv
  BY DEF IInv
<1>1. ASSUME NEW t \in Tasks, NEW place \in Places, Register(t, place) PROVE fut'[r] = fut[r]
  <2>1. /\ serial' = serial + 1 /\ serial \in Nat
        /\ \A q \in Request \ {serial'} : fut'[q] = fut[q]
    BY <1>1, RegisterStep
  <2>2. r # serial'
    BY <1>0, <2>1 DEF IdentInv, TypeOK
  <2> QED BY <2>1, <2>2
<1>2. CASE Die
  BY <1>2 DEF Die
<1>3. ASSUME NEW t \in Tasks, Timeout(t) PROVE fut'[r] = fut[r]
  BY <1>0, <1>3 DEF Timeout, TypeOK
<1>4. ASSUME NEW c \in Tasks, Cancel(c) PROVE fut'[r] = fut[r]
  BY <1>0, <1>4 DEF Cancel, TypeOK
<1>5. ASSUME NEW m, Resolve(m) PROVE fut'[r] = fut[r]
  BY <1>5 DEF Resolve
<1>6. CASE Dispatch
  BY <1>6, <1>2, <1>5 DEF Dispatch, futures
<1>7. CASE EndOfFile \/ IdleTimeout
  BY <1>7, <1>2 DEF EndOfFile, IdleTimeout
<1>8. CASE Owning
  <2>1. CASE Spawned
    <3>1. Owner \in Tasks /\ \E place \in Places : Register(Owner, place)
      BY <2>1 DEF Spawned, Tasks, Places
    <3> QED BY <3>1, <1>1
  <2>2. CASE Start \/ StartAgain \/ SpawnFail \/ Close \/ Closed
    BY <2>2 DEF Start, StartAgain, SpawnFail, Close, Closed, futures
  <2> QED BY <1>8, <2>1, <2>2 DEF Owning
<1>9. ASSUME NEW c \in Callers, Call(c) PROVE fut'[r] = fut[r]
  <2>1. c \in Tasks /\ \E place \in Places : Register(c, place)
    BY <1>9 DEF Call, Tasks, Places
  <2> QED BY <2>1, <1>1
<1>10. ASSUME NEW t \in Tasks,
              Acquire(t) \/ Sent(t) \/ SendFail(t) \/ Cancel(t) \/ Timeout(t) \/ Resume(t)
       PROVE  fut'[r] = fut[r]
  BY <1>3, <1>4, <1>10 DEF Acquire, Sent, SendFail, Resume, futures
<1>11. CASE \/ ServerDies
            \/ \E q \in Request : Reply(q)
            \/ \E kind \in {"answer", "junk"} : Noise(kind)
  BY <1>11 DEF ServerDies, Reply, Noise, futures
<1>12. CASE UNCHANGED vars
  BY <1>12 DEF vars
<1> QED BY <1>6, <1>7, <1>8, <1>9, <1>10, <1>11, <1>12 DEF Next

\* A future that is done is never set again: not by an answer that comes after
\* the caller was cancelled or timed out, nor by the dispatcher's death.
THEOREM FuturesSetOnce == Spec => SetOnce
<1>1. IInv /\ [Next]_vars =>
        [\A r \in Request : fut[r] \notin {"none", "waiting"} => fut'[r] = fut[r]]_vars
  BY SetOnceStep
<1> QED BY <1>1, AlwaysIInv, PTL DEF Spec, SetOnce

-----------------------------------------------------------------------------
(* The refinement.                                                         *)

\* The request a task has is one of Request, and open.
LEMMA TaskOpen ==
    ASSUME IInv, NEW t \in Tasks, at[t] # 0
    PROVE  TypeOK /\ at[t] \in Request /\ outcome[at[t]] = "open"
<1>1. TypeOK /\ at[t] \in 0..MaxRequests /\ outcome[at[t]] = "open"
  BY DEF IInv, TypeOK, TaskInv
<1> QED BY <1>1, ClientAssumption DEF Request

\* A new outcome of one request is a new entry of Told.
LEMMA ToldExcept ==
    ASSUME outcome \in [Request -> {"none", "open", "ok", "error"}],
           NEW r \in Request, NEW v \in {"open", "ok", "error"},
           outcome' = [outcome EXCEPT ![r] = v]
    PROVE  /\ v = "open" => Told' = [Told EXCEPT ![r] = "open"]
           /\ v = "ok" => Told' = [Told EXCEPT ![r] = "ok"]
           /\ v = "error" => Told' = [Told EXCEPT ![r] = "failed"]
<1>1. /\ \A q \in Request \ {r} : outcome'[q] = outcome[q]
      /\ outcome'[r] = v /\ outcome' \in [Request -> {"none", "open", "ok", "error"}]
  OBVIOUS
<1>2. DOMAIN Told = Request /\ DOMAIN Told' = Request
  BY DEF Told
<1>3. \A q \in Request \ {r} : Told'[q] = Told[q]
  <2> SUFFICES ASSUME NEW q \in Request \ {r} PROVE Told'[q] = Told[q]
    OBVIOUS
  <2>1. outcome'[q] = outcome[q]
    OBVIOUS
  <2> QED BY <2>1 DEF Told
<1>4. /\ v = "open" => Told'[r] = "open"
      /\ v = "ok" => Told'[r] = "ok"
      /\ v = "error" => Told'[r] = "failed"
  BY <1>1 DEF Told
<1>5. /\ Told = [q \in Request |-> Told[q]]
      /\ Told' = [q \in Request |-> Told'[q]]
  BY DEF Told
<1> HIDE DEF Told
<1> QED BY <1>2, <1>3, <1>4, <1>5

\* A step that keeps the outcomes and the answered requests is a stutter.
LEMMA RemoteStutter ==
    ASSUME outcome' = outcome, executed' = executed
    PROVE  UNCHANGED <<Told, executed>>
BY DEF Told

LEMMA RemoteInit == Init => Remote!Init
<1> SUFFICES ASSUME Init PROVE Remote!Init
  OBVIOUS
<1>1. outcome = [r \in Request |-> "none"] /\ executed = {}
  BY DEF Init
<1>2. Told = [r \in Request |-> "unused"]
  BY <1>1 DEF Told
<1> QED BY <1>1, <1>2 DEF Remote!Init

\* To register is to issue the next request.
LEMMA RegisterIssues ==
    ASSUME IInv, NEW t \in Tasks, NEW place \in Places, Register(t, place),
           executed' = executed
    PROVE  Remote!Next
<1> DEFINE r == serial'
<1>1. TypeOK /\ IdentInv
  BY DEF IInv
<1>2. r \in Request /\ r > serial
  BY RegisterStep
<1>3. outcome' = [outcome EXCEPT ![r] = "open"]
  BY DEF Register
<1> HIDE DEF r
<1>4. outcome[r] = "none"
  BY <1>1, <1>2 DEF IdentInv
<1>5. Told[r] = "unused"
  BY <1>2, <1>4 DEF Told
<1>6. Told' = [Told EXCEPT ![r] = "open"]
  BY <1>1, <1>2, <1>3, ToldExcept DEF TypeOK
<1>7. Remote!Issue(r)
  BY <1>5, <1>6 DEF Remote!Issue
<1> QED BY <1>2, <1>7 DEF Remote!Next

\* A task whose request raises was told nothing before.
LEMMA RaiseFails ==
    ASSUME IInv, NEW t \in Tasks, at[t] # 0, Raise(t), executed' = executed
    PROVE  Remote!Next
<1>1. TypeOK /\ at[t] \in Request /\ outcome[at[t]] = "open"
  BY TaskOpen
<1>2. Told[at[t]] = "open"
  BY <1>1 DEF Told
<1>3. Told' = [Told EXCEPT ![at[t]] = "failed"]
  BY <1>1, ToldExcept DEF Raise, TypeOK
<1>4. Remote!Fail(at[t])
  BY <1>2, <1>3 DEF Remote!Fail
<1> QED BY <1>1, <1>4 DEF Remote!Next

\* A result is only told of a request the server has answered.
LEMMA ResumeTells == ASSUME IInv, NEW t \in Tasks, Resume(t) PROVE Remote!Next
<1>0. at[t] # 0 /\ executed' = executed
  BY DEF Resume, remote
<1>1. CASE Raise(t)
  BY <1>0, <1>1, RaiseFails
<1>2. CASE fut[at[t]] = "answer" /\ outcome' = [outcome EXCEPT ![at[t]] = "ok"]
  <2>1. TypeOK /\ at[t] \in Request /\ outcome[at[t]] = "open"
    BY <1>0, TaskOpen
  <2>2. Told[at[t]] = "open" /\ at[t] \in executed
    BY <1>2, <2>1 DEF Told, IInv, AnswerInv
  <2>3. Told' = [Told EXCEPT ![at[t]] = "ok"]
    BY <1>2, <2>1, ToldExcept DEF TypeOK
  <2>4. Remote!Succeed(at[t])
    BY <1>0, <2>2, <2>3 DEF Remote!Succeed
  <2> QED BY <2>1, <2>4 DEF Remote!Next
<1> QED BY <1>1, <1>2 DEF Resume

\* The first answer to a request is its execution, and the others are stutters.
LEMMA ReplyExecutes ==
    ASSUME IInv, NEW r \in Request, Reply(r)
    PROVE  Remote!Next \/ UNCHANGED <<Told, executed>>
<1>1. /\ r \in queue /\ executed' = executed \cup {r} /\ outcome' = outcome
  BY DEF Reply, requests
<1>2. r \in 1..serial
  BY <1>1 DEF IInv, ServerInv
<1>3. Told' = Told
  BY <1>1 DEF Told
<1>4. Told[r] # "unused"
  <2>1. /\ outcome \in [Request -> {"none", "open", "ok", "error"}] /\ serial \in Nat
        /\ outcome[r] # "none"
    BY <1>2 DEF IInv, TypeOK, IdentInv
  <2> QED BY <1>2, <2>1 DEF Told
<1>5. CASE r \in executed
  BY <1>1, <1>5, RemoteStutter
<1>6. CASE r \notin executed
  <2>1. Remote!Execute(r)
    BY <1>1, <1>3, <1>4, <1>6 DEF Remote!Execute
  <2> QED BY <2>1 DEF Remote!Next
<1> QED BY <1>5, <1>6

LEMMA RemoteStep == IInv /\ [Next]_vars => [Remote!Next]_<<Told, executed>>
<1> SUFFICES ASSUME IInv, [Next]_vars PROVE Remote!Next \/ UNCHANGED <<Told, executed>>
  OBVIOUS
<1>1. CASE Owning
  <2>1. CASE Spawned
    <3>1. Owner \in Tasks /\ executed' = executed /\ \E place \in Places : Register(Owner, place)
      BY <2>1 DEF Spawned, Tasks, Places
    <3> QED BY <3>1, RegisterIssues
  <2>2. CASE Start \/ StartAgain \/ SpawnFail \/ Close \/ Closed
    <3>1. outcome' = outcome /\ executed' = executed
      BY <2>2 DEF Start, StartAgain, SpawnFail, Close, Closed, requests, remote
    <3> QED BY <3>1, RemoteStutter
  <2> QED BY <1>1, <2>1, <2>2 DEF Owning
<1>2. ASSUME NEW c \in Callers, Call(c) PROVE Remote!Next
  <2>1. c \in Tasks /\ executed' = executed /\ \E place \in Places : Register(c, place)
    BY <1>2 DEF Tasks, Call, Places
  <2> QED BY <2>1, RegisterIssues
<1>3. ASSUME NEW t \in Tasks,
             Acquire(t) \/ Sent(t) \/ SendFail(t) \/ Cancel(t) \/ Timeout(t) \/ Resume(t)
      PROVE  Remote!Next \/ UNCHANGED <<Told, executed>>
  <2>1. CASE Acquire(t) \/ Sent(t)
    BY <2>1, RemoteStutter DEF Acquire, Sent, remote
  <2>2. CASE SendFail(t)
    <3>1. at[t] # 0 /\ Raise(t) /\ executed' = executed
      BY <2>2 DEF SendFail, remote, IInv, TaskInv
    <3> QED BY <3>1, RaiseFails
  <2>3. CASE Timeout(t)
    BY <2>3, RaiseFails DEF Timeout, remote
  <2>4. CASE Cancel(t)
    BY <2>4, RaiseFails DEF Cancel, remote
  <2> QED BY <1>3, <2>1, <2>2, <2>3, <2>4, ResumeTells
<1>4. CASE Dispatch \/ EndOfFile \/ IdleTimeout
  <2>1. outcome' = outcome /\ executed' = executed
    BY <1>4 DEF Dispatch, EndOfFile, IdleTimeout, requests, remote
  <2> QED BY <2>1, RemoteStutter
<1>5. ASSUME NEW r \in Request, Reply(r)
      PROVE  Remote!Next \/ UNCHANGED <<Told, executed>>
  BY <1>5, ReplyExecutes
<1>6. CASE ServerDies \/ (\E kind \in {"answer", "junk"} : Noise(kind)) \/ UNCHANGED vars
  <2>1. outcome' = outcome /\ executed' = executed
    BY <1>6 DEF ServerDies, Noise, requests, vars
  <2> QED BY <2>1, RemoteStutter
<1> QED BY <1>1, <1>2, <1>3, <1>4, <1>5, <1>6 DEF Next

\* The client implements RemoteCalls: a call gets one outcome, and succeeds only
\* if the server answered that very call, whatever is cancelled or fails while the
\* server has the request already, is answered early or twice, times out, dies, or
\* is closed and started again.
THEOREM ClientImplementsRemoteCalls == Spec => ImplementsRemoteCalls
<1> QED BY RemoteInit, RemoteStep, AlwaysIInv, PTL
        DEF Spec, ImplementsRemoteCalls, Remote!Spec

==============================================================================
