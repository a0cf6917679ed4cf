------------------------------ MODULE SSEStream ------------------------------
(***************************************************************************)
(* The SSE stream between an agent run and its HTTP client: the adapter    *)
(* with its bounded asyncio.Queue (stream/adapter.py), the tasks that send *)
(* events and finish it, and the generator that feeds the client.          *)
(*                                                                         *)
(* wait_for(put) gives the put a step of its own: other tasks run between  *)
(* the checks at the top of send_event and the put, and while the put      *)
(* waits for room.  A heartbeat changes no state: it is a stuttering step. *)
(***************************************************************************)
EXTENDS Integers, Sequences

CONSTANTS Senders,      \* tasks that send events and may call finish()
          BufferSize,   \* maxsize of the queue
          End,          \* the None that ends the stream
          MaxEvents,    \* bound on the events of a sender
          MaxFinish     \* bound on the calls of finish()

Event == [from : Senders, n : 1..MaxEvents]
Item == Event \cup {End}

ASSUME StreamAssumption ==
    /\ BufferSize \in Nat \ {0}
    /\ MaxEvents \in Nat /\ MaxFinish \in Nat
    /\ End \notin Event

VARIABLES
    log,       \* every item ever put in the queue, in order
    taken,     \* how many of them the generator took: the queue is the rest
    finished,  \* is_finished
    closed,    \* is_closed
    dropped,   \* events_dropped
    pc,        \* what each sender does in send_event
    calls,     \* how many events each sender has sent
    timeouts,  \* history: how often each sender waited in vain
    cut,       \* history: the calls of the task that first called finish()
    finishes,  \* history: the calls of finish()
    timed,     \* the client reads event_generator_with_timeout
    client     \* the generator: it reads, or how it came to its end

vars == <<log, taken, finished, closed, dropped, pc, calls, timeouts, cut,
          finishes, timed, client>>

QSize == Len(log) - taken
Full == QSize >= BufferSize
Pending(s) == [from |-> s, n |-> calls[s]]
Received == {log[i] : i \in 1..taken}

Init ==
    /\ log = <<>> /\ taken = 0
    /\ finished = FALSE /\ closed = FALSE /\ dropped = 0
    /\ pc = [s \in Senders |-> "idle"]
    /\ calls = [s \in Senders |-> 0]
    /\ timeouts = [s \in Senders |-> 0]
    /\ cut = [s \in Senders |-> 0]
    /\ finishes = 0
    /\ timed \in BOOLEAN
    /\ client = "reading"

\* send_event up to the put: silent once the stream is finished or closed.
SendEvent(s) ==
    /\ pc[s] = "idle"
    /\ calls[s] < MaxEvents
    /\ calls' = [calls EXCEPT ![s] = @ + 1]
    /\ IF finished \/ closed
       THEN dropped' = dropped + 1 /\ UNCHANGED pc
       ELSE pc' = [pc EXCEPT ![s] = "put"] /\ UNCHANGED dropped
    /\ UNCHANGED <<log, taken, finished, closed, timeouts, cut, finishes, timed, client>>

Put(s) ==
    /\ pc[s] \in {"put", "waiting"}
    /\ ~Full
    /\ log' = Append(log, Pending(s))
    /\ pc' = [pc EXCEPT ![s] = "idle"]
    /\ UNCHANGED <<taken, finished, closed, dropped, calls, timeouts, cut, finishes, timed, client>>

\* The put finds the queue full.
Wait(s) ==
    /\ pc[s] = "put"
    /\ Full
    /\ pc' = [pc EXCEPT ![s] = "waiting"]
    /\ UNCHANGED <<log, taken, finished, closed, dropped, calls, timeouts, cut, finishes, timed, client>>

\* Mutant: the timeout only drops the event.
TimeoutDropsOne(s) ==
    /\ pc[s] = "waiting"
    /\ pc' = [pc EXCEPT ![s] = "idle"]
    /\ timeouts' = [timeouts EXCEPT ![s] = @ + 1]
    /\ dropped' = dropped + 1
    /\ UNCHANGED <<log, taken, finished, closed, calls, cut, finishes, timed, client>>

\* Mutant: a put on a full queue waits without a timeout.
NoTimeout(s) == FALSE /\ UNCHANGED vars

\* put_timeout has passed.  A slot may have become free in the same iteration
\* of the event loop, so the queue need not be full.
Timeout(s) ==
    /\ pc[s] = "waiting"
    /\ pc' = [pc EXCEPT ![s] = "idle"]
    /\ timeouts' = [timeouts EXCEPT ![s] = @ + 1]
    /\ closed' = TRUE
    /\ dropped' = dropped + 1
    /\ UNCHANGED <<log, taken, finished, calls, cut, finishes, timed, client>>

\* Mutant: finish makes room for the sentinel on a full queue.
FinishEvicts(s) ==
    /\ pc[s] = "idle"
    /\ finishes < MaxFinish /\ finishes' = finishes + 1
    /\ finished' = TRUE
    /\ cut' = IF finishes = 0 THEN [cut EXCEPT ![s] = calls[s]] ELSE cut
    /\ log' = IF Full THEN [log EXCEPT ![Len(log)] = End] ELSE Append(log, End)
    /\ UNCHANGED <<taken, closed, dropped, pc, calls, timeouts, timed, client>>

\* Mutant: the sentinel is put although the queue is full.
FinishOverfills(s) ==
    /\ pc[s] = "idle"
    /\ finishes < MaxFinish /\ finishes' = finishes + 1
    /\ finished' = TRUE
    /\ cut' = IF finishes = 0 THEN [cut EXCEPT ![s] = calls[s]] ELSE cut
    /\ log' = Append(log, End)
    /\ UNCHANGED <<taken, closed, dropped, pc, calls, timeouts, timed, client>>

\* Mutant: the lost sentinel does not close the stream.
FinishStaysOpen(s) ==
    /\ pc[s] = "idle"
    /\ finishes < MaxFinish /\ finishes' = finishes + 1
    /\ finished' = TRUE
    /\ cut' = IF finishes = 0 THEN [cut EXCEPT ![s] = calls[s]] ELSE cut
    /\ IF Full THEN UNCHANGED log ELSE log' = Append(log, End)
    /\ UNCHANGED <<taken, closed, dropped, pc, calls, timeouts, timed, client>>

\* finish: the flag first, then the sentinel if there is room for it.
Finish(s) ==
    /\ pc[s] = "idle"
    /\ finishes < MaxFinish /\ finishes' = finishes + 1
    /\ finished' = TRUE
    /\ cut' = IF finishes = 0 THEN [cut EXCEPT ![s] = calls[s]] ELSE cut
    /\ IF Full
       THEN closed' = TRUE /\ dropped' = dropped + 1 /\ UNCHANGED log
       ELSE log' = Append(log, End) /\ UNCHANGED <<closed, dropped>>
    /\ UNCHANGED <<taken, pc, calls, timeouts, timed, client>>

\* event_generator takes the next item.
Take ==
    /\ client = "reading"
    /\ QSize > 0
    /\ taken' = taken + 1
    /\ client' = IF log[taken + 1] = End THEN "ended" ELSE "reading"
    /\ UNCHANGED <<log, finished, closed, dropped, pc, calls, timeouts, cut, finishes, timed>>

\* Mutant: only an event is checked against the deadline.
DeadlineOnEvents ==
    /\ timed
    /\ client = "reading"
    /\ QSize > 0 /\ log[taken + 1] # End
    /\ client' = "expired"
    /\ taken' = taken + 1
    /\ UNCHANGED <<log, finished, closed, dropped, pc, calls, timeouts, cut, finishes, timed>>

\* The first message after the deadline, an event or a heartbeat, is
\* replaced by an error and ends the stream.
Deadline ==
    /\ timed
    /\ client = "reading"
    /\ client' = "expired"
    /\ taken' = IF QSize > 0 THEN taken + 1 ELSE taken
    /\ QSize > 0 => log[taken + 1] # End
    /\ UNCHANGED <<log, finished, closed, dropped, pc, calls, timeouts, cut, finishes, timed>>

\* An event that cannot be rendered: the generator yields an error and ends.
Broken ==
    /\ client = "reading"
    /\ QSize > 0 /\ log[taken + 1] # End
    /\ taken' = taken + 1
    /\ client' = "failed"
    /\ UNCHANGED <<log, finished, closed, dropped, pc, calls, timeouts, cut, finishes, timed>>

\* The client disconnects.
Leave ==
    /\ client = "reading"
    /\ client' = "gone"
    /\ UNCHANGED <<log, taken, finished, closed, dropped, pc, calls, timeouts, cut, finishes, timed>>

Next ==
    \/ \E s \in Senders : SendEvent(s) \/ Put(s) \/ Wait(s) \/ Timeout(s) \/ Finish(s)
    \/ Take \/ Deadline \/ Broken \/ Leave

Spec == Init /\ [][Next]_vars

\* put_timeout is finite, the loop runs every ready task, and a client that
\* has not left asks the generator for the next message.
Fairness ==
    /\ \A s \in Senders : WF_vars(Put(s) \/ Wait(s)) /\ WF_vars(Timeout(s))
    /\ WF_vars(Take) /\ WF_vars(Deadline)

FairSpec == Spec /\ Fairness

-----------------------------------------------------------------------------
TypeOK ==
    /\ log \in Seq(Item) /\ taken \in 0..Len(log)
    /\ QSize <= BufferSize
    /\ finished \in BOOLEAN /\ closed \in BOOLEAN /\ dropped \in Nat
    /\ pc \in [Senders -> {"idle", "put", "waiting"}]
    /\ calls \in [Senders -> 0..MaxEvents]
    /\ timeouts \in [Senders -> Nat]
    /\ cut \in [Senders -> 0..MaxEvents]
    /\ finishes \in 0..MaxFinish
    /\ timed \in BOOLEAN
    /\ client \in {"reading", "ended", "expired", "failed", "gone"}

\* However the senders, the timeouts, finish() and the client interleave, the
\* events of a sender reach the client in order, none twice and without a gap:
\* a dropped event is never followed by a delivered one.
NoGap ==
    \A i \in DOMAIN log : log[i] # End =>
        /\ \A j \in DOMAIN log : log[j] = log[i] => j = i
        /\ log[i].n > 1 => \E j \in 1..(i - 1) :
               log[j] = [from |-> log[i].from, n |-> log[i].n - 1]

\* A client that is gone costs each sender one put_timeout at most.
OneTimeoutEach == \A s \in Senders : timeouts[s] <= 1

\* A stream that came to its end without being closed has shown the client
\* all that the task which finished it had sent.
EndComplete ==
    client = "ended" /\ ~closed =>
        \A s \in Senders : \A k \in 1..cut[s] : [from |-> s, n |-> k] \in Received

\* No call of send_event blocks its task for ever, whatever the client does.
SendReturns == \A s \in Senders : pc[s] # "idle" ~> pc[s] = "idle"

\* The generator of a client that goes on reading ends: after a finish() that
\* delivered its sentinel, and with a deadline even when the sentinel was lost
\* or the run never finishes.
GeneratorEnds ==
    /\ finished /\ ~closed ~> client # "reading"
    /\ timed ~> client # "reading"

\* Nobody waits for ever: no sender, and no client that goes on reading.
NobodyWaits == SendReturns /\ GeneratorEnds

\* Once finish() was called, the generator of a client that goes on reading
\* comes to its end.
StreamEnds == finished ~> client # "reading"

=============================================================================
