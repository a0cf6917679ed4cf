------------------------------ MODULE MCPClient ------------------------------
(***************************************************************************)
(* An MCP client (providers/mcp/client.py): its owner starts and closes    *)
(* it, tasks send JSON-RPC requests, the dispatcher task matches answers   *)
(* to futures, and a server outside of the program answers in any order,   *)
(* early, late, twice or never, sends noise, or dies.                      *)
(*                                                                         *)
(* A request is named by its serial number.  The id it carries on the wire *)
(* is a different thing: that the two agree is what _next_id is for.       *)
(***************************************************************************)
EXTENDS Integers, Sequences, FiniteSets

CONSTANTS Callers,      \* tasks that call list_tools or call_tool
          Owner,        \* the task that calls start and close
          MaxRequests,  \* bound on the requests ever made
          MaxStarts,    \* bound on the calls of start()
          MaxNoise      \* bound on what nobody asked for: repeated answers,
                        \* unknown ids, notifications, junk, idle hours

Request == 1..MaxRequests
Tasks == Callers \cup {Owner}

ASSUME ClientAssumption ==
    /\ Owner \notin Callers
    /\ MaxRequests \in Nat /\ MaxStarts \in Nat /\ MaxNoise \in Nat

VARIABLES
    transport,   \* the transport of its ServerSpec, "stdio" or "sse"
    phase,       \* what the owner is doing
    started,     \* _started
    initialized, \* _initialized
    dispatcher,  \* the _dispatch_loop task
    nextId,      \* _next_id
    serial,      \* history: the requests made
    ident,       \* the id of each request
    fut,         \* the future of each request
    answers,     \* history: the request the answer in the future was given to
    pending,     \* _pending: the requests whose future is in the dictionary
    at,          \* the request a task is sending or waiting for, or 0
    sending,     \* where a task is in transport.send: waiting for the write
                 \* lock, past its write, or without a transport
    outcome,     \* history: what each request's caller was told
    server,      \* up while its process or event stream is there, none at first
    queue,       \* the requests the server may have received
    executed,    \* history: the requests the server has answered
    inbox,       \* messages on their way to the dispatcher
    noise,       \* history: what nobody asked for
    starts,      \* history: the calls of start()
    doomed       \* history: the requests made when the dispatcher died

vars == <<transport, phase, started, initialized, dispatcher, nextId, serial, ident, fut,
          answers, pending, at, sending, outcome, server, queue, executed, inbox,
          noise, starts, doomed>>
owner == <<transport, phase, started, initialized, starts>>
requests == <<nextId, serial, ident, at, sending, outcome>>
futures == <<fut, answers, pending>>
remote == <<server, queue, executed, inbox, noise>>

Init ==
    /\ transport \in {"stdio", "sse"}
    /\ phase = "new" /\ started = FALSE /\ initialized = FALSE
    /\ dispatcher = "none"
    /\ nextId = 1 /\ serial = 0
    /\ ident = [r \in Request |-> 0]
    /\ fut = [r \in Request |-> "none"]
    /\ answers = [r \in Request |-> 0]
    /\ pending = {}
    /\ at = [t \in Tasks |-> 0] /\ sending = [t \in Tasks |-> "no"]
    /\ outcome = [r \in Request |-> "none"]
    /\ server = "none" /\ queue = {} /\ executed = {} /\ inbox = <<>>
    /\ noise = 0 /\ starts = 0 /\ doomed = {}

-----------------------------------------------------------------------------
(* _request.                                                               *)

\* The pipe has a write lock, which wakes its waiters in their order.
Busy == transport = "stdio" /\ \E u \in Tasks : sending[u] \in {"lock", "wire"}

\* What is written now may reach a server: the process, or whoever the HTTP
\* client posts to, also when the event stream has ended.
Reaches == IF transport = "stdio" THEN server = "up" ELSE started

\* Mutant: the id is counted up once more.
RegisterSkips(t, place) ==
    LET r == serial + 1
    IN  /\ at[t] = 0
        /\ r \in Request /\ serial' = r
        /\ ident' = [ident EXCEPT ![r] = nextId]
        /\ nextId' = nextId + 2
        /\ fut' = [fut EXCEPT ![r] = "waiting"]
        /\ pending' = {p \in pending : ident[p] # nextId} \cup {r}
        /\ outcome' = [outcome EXCEPT ![r] = "open"]
        /\ at' = [at EXCEPT ![t] = r]
        /\ sending' = [sending EXCEPT ![t] = place]
        /\ UNCHANGED answers

\* The part before the send: a fresh id and a future under it.
Register(t, place) ==
    LET r == serial + 1
    IN  /\ at[t] = 0
        /\ r \in Request /\ serial' = r
        /\ ident' = [ident EXCEPT ![r] = nextId]
        /\ nextId' = nextId + 1
        /\ fut' = [fut EXCEPT ![r] = "waiting"]
        /\ pending' = {p \in pending : ident[p] # nextId} \cup {r}
        /\ outcome' = [outcome EXCEPT ![r] = "open"]
        /\ at' = [at EXCEPT ![t] = r]
        /\ sending' = [sending EXCEPT ![t] = place]
        /\ UNCHANGED answers

\* list_tools or call_tool, at any time: a tool may outlive the close of its
\* client, and nothing asks whether it was started.
Call(c) ==
    /\ Register(c, IF server = "none" THEN "unstarted" ELSE IF Busy THEN "lock" ELSE "wire")
    /\ queue' = IF server # "none" /\ ~Busy /\ Reaches THEN queue \cup {serial'} ELSE queue
    /\ UNCHANGED <<owner, dispatcher, server, executed, inbox, noise, doomed>>

\* The write lock is free: the one that waits longest writes.
Acquire(t) ==
    /\ sending[t] = "lock"
    /\ \A u \in Tasks : sending[u] # "wire" /\ (sending[u] = "lock" => at[t] <= at[u])
    /\ sending' = [sending EXCEPT ![t] = "wire"]
    /\ queue' = IF Reaches THEN queue \cup {at[t]} ELSE queue
    /\ UNCHANGED <<owner, dispatcher, nextId, serial, ident, at, outcome, futures,
                   server, executed, inbox, noise, doomed>>

\* drain() or the post returns, which may be long after the server answered.
Sent(t) ==
    /\ sending[t] = "wire"
    /\ sending' = [sending EXCEPT ![t] = "no"]
    /\ UNCHANGED <<owner, dispatcher, nextId, serial, ident, at, outcome, futures,
                   remote, doomed>>

\* The request of t raises: to its caller, or out of the owner's start().
Raise(t) ==
    /\ at' = [at EXCEPT ![t] = 0]
    /\ outcome' = [outcome EXCEPT ![at[t]] = "error"]
    /\ phase' = IF t = Owner THEN "failed" ELSE phase

\* The pipe or the post raises, or there is no transport yet: the entry in
\* _pending stays, and the server may have the request all the same.
SendFail(t) ==
    /\ sending[t] \in {"wire", "unstarted"}
    /\ sending' = [sending EXCEPT ![t] = "no"]
    /\ Raise(t)
    /\ UNCHANGED <<transport, started, initialized, starts, dispatcher, nextId, serial, ident,
                   futures, remote, doomed>>

\* Mutant: the request waits without a timeout.
NoTimeout(t) == FALSE /\ UNCHANGED vars

\* wait_for gives up, cancels the future and the entry is removed.
Timeout(t) ==
    /\ at[t] # 0 /\ sending[t] = "no"
    /\ fut[at[t]] = "waiting"
    /\ fut' = [fut EXCEPT ![at[t]] = "cancelled"]
    /\ pending' = {p \in pending : ident[p] # ident[at[t]]}
    /\ Raise(t)
    /\ UNCHANGED <<transport, started, initialized, starts, dispatcher, nextId, serial, ident,
                   answers, sending, remote, doomed>>

\* The caller is cancelled (ToolExecutor's own timeout), or the owner in its
\* handshake: nothing removes the entry or takes back what was written, and only
\* wait_for cancels the future.
Cancel(t) ==
    /\ at[t] # 0 /\ sending[t] # "unstarted"
    /\ fut' = IF sending[t] = "no" /\ fut[at[t]] = "waiting"
              THEN [fut EXCEPT ![at[t]] = "cancelled"] ELSE fut
    /\ sending' = [sending EXCEPT ![t] = "no"]
    /\ Raise(t)
    /\ UNCHANGED <<transport, started, initialized, starts, dispatcher, nextId, serial, ident,
                   answers, pending, remote, doomed>>

\* The future is done: its answer is the result or an error, a transport that
\* died is an error.  The owner's was the handshake.
Resume(t) ==
    /\ at[t] # 0 /\ sending[t] = "no"
    /\ \/ /\ fut[at[t]] = "answer"
          /\ at' = [at EXCEPT ![t] = 0]
          /\ outcome' = [outcome EXCEPT ![at[t]] = "ok"]
          /\ IF t = Owner
             THEN phase' = "open" /\ initialized' = TRUE
             ELSE UNCHANGED <<phase, initialized>>
       \/ /\ fut[at[t]] \in {"answer", "failed"}
          /\ Raise(t)
          /\ UNCHANGED initialized
    /\ UNCHANGED <<transport, started, starts, dispatcher, nextId, serial, ident, sending,
                   futures, remote, doomed>>

-----------------------------------------------------------------------------
(* The dispatcher.                                                         *)

\* Mutant: the in-flight futures are left alone.
DieSilently ==
    /\ dispatcher' = "dead"
    /\ doomed' = 1..serial
    /\ UNCHANGED fut

\* recv raised: the loop ends, and the futures in _pending fail.
Die ==
    /\ dispatcher' = "dead"
    /\ doomed' = 1..serial
    /\ fut' = [r \in Request |->
                 IF r \in pending /\ fut[r] = "waiting" THEN "failed" ELSE fut[r]]

\* Mutant: answers are taken to come in the order of the requests.
MatchOldest(id) ==
    {p \in pending : \A q \in pending : p <= q}

\* The entries of _pending under an id: one at most.
Match(id) == {p \in pending : ident[p] = id}

\* Mutant: the future is set without a look at whether it is done.
ResolveAlways(m) ==
    /\ pending' = pending \ Match(m.id)
    /\ fut' = [r \in Request |-> IF r \in Match(m.id) THEN "answer" ELSE fut[r]]
    /\ answers' = [r \in Request |-> IF r \in Match(m.id) THEN m.of ELSE answers[r]]

\* The entry under the id is popped; its future is set unless it is done.
Resolve(m) ==
    LET waiting == {r \in Match(m.id) : fut[r] = "waiting"}
    IN  /\ pending' = pending \ Match(m.id)
        /\ fut' = [r \in Request |-> IF r \in waiting THEN "answer" ELSE fut[r]]
        /\ answers' = [r \in Request |-> IF r \in waiting THEN m.of ELSE answers[r]]

\* The next message: an answer, which without an id, or with one that nobody
\* waits for, is ignored; or junk, on which recv or the loop raises.
Dispatch ==
    /\ dispatcher = "running"
    /\ inbox # <<>>
    /\ inbox' = Tail(inbox)
    /\ LET m == Head(inbox)
       IN  \/ m.kind = "answer" /\ Resolve(m) /\ UNCHANGED <<dispatcher, doomed>>
           \/ m.kind = "junk" /\ Die /\ UNCHANGED <<answers, pending>>
    /\ UNCHANGED <<owner, requests, server, queue, executed, noise>>

\* The server closed its stdout.  (The SSE reader stops without a word.)
EndOfFile ==
    /\ transport = "stdio"
    /\ dispatcher = "running"
    /\ server = "down" /\ inbox = <<>>
    /\ Die
    /\ UNCHANGED <<owner, requests, answers, pending, remote>>

\* Nothing came for recv's 3600 seconds.
IdleTimeout ==
    /\ dispatcher = "running"
    /\ inbox = <<>>
    /\ noise < MaxNoise /\ noise' = noise + 1
    /\ Die
    /\ UNCHANGED <<owner, requests, answers, pending, server, queue, executed, inbox>>

-----------------------------------------------------------------------------
(* The owner: start and close.                                             *)

\* start() on a client that is started does nothing, initialized or not.
StartAgain ==
    /\ phase = "failed"
    /\ started
    /\ starts < MaxStarts /\ starts' = starts + 1
    /\ phase' = "open"
    /\ UNCHANGED <<transport, started, initialized, dispatcher, requests, futures, remote, doomed>>

\* start() up to the await of the transport.
Start ==
    /\ phase \in {"new", "failed", "closed"}
    /\ ~started
    /\ starts < MaxStarts /\ starts' = starts + 1
    /\ phase' = "spawning"
    /\ UNCHANGED <<transport, started, initialized, dispatcher, requests, futures, remote, doomed>>

\* The subprocess cannot be created.
SpawnFail ==
    /\ transport = "stdio"
    /\ phase = "spawning"
    /\ phase' = "failed"
    /\ UNCHANGED <<transport, started, initialized, starts, dispatcher, requests, futures, remote, doomed>>

\* The transport is up: the dispatcher starts and the handshake is sent.  A
\* new process has new pipes; the SSE inbox is as old as the client.  The write
\* lock may still be held by who wrote to the process before.
Spawned ==
    /\ phase = "spawning"
    /\ phase' = "handshake"
    /\ started' = TRUE
    /\ dispatcher' = "running"
    /\ server' = "up"
    /\ inbox' = IF transport = "stdio" THEN <<>> ELSE inbox
    /\ Register(Owner, IF Busy THEN "lock" ELSE "wire")
    /\ queue' = (IF transport = "stdio" THEN {} ELSE queue) \cup (IF Busy THEN {} ELSE {serial'})
    /\ doomed' = {}
    /\ UNCHANGED <<transport, initialized, starts, executed, noise>>

\* close() up to the await of the transport: the dispatcher is cancelled.
Close ==
    /\ phase \in {"open", "failed"}
    /\ phase' = IF started THEN "closing" ELSE "closed"
    /\ dispatcher' = "none"
    /\ UNCHANGED <<transport, started, initialized, starts, requests, futures, remote, doomed>>

\* Mutant: the ids start again with the next process.
ClosedResetsIds ==
    /\ phase = "closing"
    /\ phase' = "closed"
    /\ started' = FALSE
    /\ server' = "down"
    /\ nextId' = 1
    /\ UNCHANGED <<transport, initialized, starts, dispatcher, serial, ident, at, sending, outcome,
                   futures, queue, executed, inbox, noise, doomed>>

\* The process was terminated, or killed 3 seconds later.
Closed ==
    /\ phase = "closing"
    /\ phase' = "closed"
    /\ started' = FALSE
    /\ server' = "down"
    /\ UNCHANGED <<transport, initialized, starts, dispatcher, requests, futures, queue, executed,
                   inbox, noise, doomed>>

-----------------------------------------------------------------------------
(* The server.                                                             *)

\* An answer to what was received: early, late, or once more.
Reply(r) ==
    /\ server = "up"
    /\ r \in queue
    /\ IF r \in executed THEN noise < MaxNoise /\ noise' = noise + 1 ELSE UNCHANGED noise
    /\ executed' = executed \cup {r}
    /\ inbox' = Append(inbox, [kind |-> "answer", id |-> ident[r], of |-> r])
    /\ UNCHANGED <<owner, requests, futures, dispatcher, server, queue, doomed>>

\* A message without an id or with one that was never given (0), or what the
\* dispatcher cannot read: a line that is not JSON (the SSE reader drops it), or
\* JSON that is not an object.
Noise(kind) ==
    /\ server = "up"
    /\ noise < MaxNoise /\ noise' = noise + 1
    /\ inbox' = Append(inbox, [kind |-> kind, id |-> 0, of |-> 0])
    /\ UNCHANGED <<owner, requests, futures, dispatcher, server, queue, executed, doomed>>

ServerDies ==
    /\ server = "up"
    /\ server' = "down"
    /\ UNCHANGED <<owner, requests, futures, dispatcher, queue, executed, inbox, noise, doomed>>

-----------------------------------------------------------------------------
Owning == Start \/ StartAgain \/ SpawnFail \/ Spawned \/ Close \/ Closed

Next ==
    \/ Owning
    \/ \E c \in Callers : Call(c)
    \/ \E t \in Tasks :
          Acquire(t) \/ Sent(t) \/ SendFail(t) \/ Cancel(t) \/ Timeout(t) \/ Resume(t)
    \/ Dispatch \/ EndOfFile \/ IdleTimeout
    \/ \E r \in Request : Reply(r)
    \/ \E kind \in {"answer", "junk"} : Noise(kind)
    \/ ServerDies

Spec == Init /\ [][Next]_vars

\* The loop wakes who may have the lock, wait_for has a timeout, and to send
\* without a transport raises at once.  Nothing is asked of the server, nor of a
\* send that has written: drain() and the post have no timeout.
Fairness == \A t \in Tasks :
    WF_vars(\/ sending[t] = "unstarted" /\ SendFail(t)
            \/ Acquire(t) \/ Timeout(t) \/ Resume(t))

FairSpec == Spec /\ Fairness

-----------------------------------------------------------------------------
Places == {"no", "lock", "wire", "unstarted"}
Message == [kind : {"answer", "junk"},
            id : 0..MaxRequests, of : 0..MaxRequests]

TypeOK ==
    /\ transport \in {"stdio", "sse"}
    /\ phase \in {"new", "spawning", "handshake", "open", "closing", "closed", "failed"}
    /\ started \in BOOLEAN /\ initialized \in BOOLEAN
    /\ dispatcher \in {"none", "running", "dead"}
    /\ nextId \in 1..(MaxRequests + 1) /\ serial \in 0..MaxRequests
    /\ ident \in [Request -> 0..MaxRequests]
    /\ fut \in [Request -> {"none", "waiting", "answer", "failed", "cancelled"}]
    /\ answers \in [Request -> 0..MaxRequests]
    /\ pending \subseteq Request
    /\ at \in [Tasks -> 0..MaxRequests]
    /\ sending \in [Tasks -> Places]
    /\ outcome \in [Request -> {"none", "open", "ok", "error"}]
    /\ server \in {"none", "up", "down"}
    /\ queue \subseteq Request /\ executed \subseteq Request
    /\ inbox \in Seq(Message)
    /\ noise \in 0..MaxNoise /\ starts \in 0..MaxStarts
    /\ doomed \subseteq Request

\* An answer resolves the future of the request it was given to, whatever was
\* cancelled, timed out, closed and started again in the meantime.
MatchedAnswer == \A r \in Request : fut[r] = "answer" => answers[r] = r

\* When the dispatcher dies, no request made before waits for an answer that
\* nobody would read.
InFlightFailed == dispatcher = "dead" => \A r \in doomed : fut[r] # "waiting"

\* No future of _pending gets another one's answer, and none is forgotten.
FuturesSound == MatchedAnswer /\ InFlightFailed

\* A future that is done is not set again by a late answer or a dead transport.
SetOnce ==
    [][\A r \in Request : fut[r] \notin {"none", "waiting"} => fut'[r] = fut[r]]_vars

\* t stands behind a write that has no timeout, its own or the one that holds the
\* write lock.
Blocked(t) ==
    \/ sending[t] = "wire"
    \/ sending[t] = "lock" /\ \E u \in Tasks : sending[u] = "wire"

\* Every request returns to its caller, whatever the server, its answers and the
\* dispatcher do, unless it is stuck for good behind a pipe that nobody drains or a
\* post that nobody answers.
RequestsReturn == \A t \in Tasks : []<>(at[t] = 0 \/ Blocked(t))

\* The client implements RemoteCalls.
Told == [r \in Request |->
           CASE outcome[r] = "none"  -> "unused"
             [] outcome[r] = "open"  -> "open"
             [] outcome[r] = "ok"    -> "ok"
             [] outcome[r] = "error" -> "failed"]

Remote == INSTANCE RemoteCalls WITH told <- Told

ImplementsRemoteCalls == Remote!Spec

=============================================================================
