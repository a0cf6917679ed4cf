------------------------------ MODULE FlaskStream ------------------------------
(***************************************************************************)
(* The stream of one request under Flask: the run is in a thread of the    *)
(* pool, the generator that feeds the client in the thread of the request, *)
(* each with an event loop of its own (web/flask_adapter.py), and between  *)
(* them is the asyncio.Queue of the adapter (stream/adapter.py), which is  *)
(* made for one loop: it belongs to the one that waits in it first, and    *)
(* the other one gets a RuntimeError when it has to wait.  A put does not  *)
(* wake the other loop, so a generator that waits sees what is there at    *)
(* its next heartbeat at the latest.                                       *)
(*                                                                         *)
(* SSEStream has the stream in one loop, with its senders and timeouts.    *)
(***************************************************************************)
EXTENDS SharedAgent, Sequences, SequencesExt

CONSTANTS QueueSize    \* buffer_size

ASSUME FlaskAssumption == QueueSize \in Nat \ {0}

VARIABLES
    queue,    \* event_queue
    owner,    \* the loop the queue is bound to
    sender,   \* the run
    reader,   \* the generator: what it does, or how it came to its end
    got,      \* history: the events the client received
    filled    \* history: a put or the sentinel found the queue full

flaskVars == <<queue, owner, sender, reader, got, filled>>

Senders == [pc : {"runs", "put", "bind", "wait", "finish", "ended"},
            failing : BOOLEAN,                          \* in its except block
            closed : BOOLEAN,                           \* is_closed
            end : {"none", "rejected", "finished", "refused"}]

NoRun == [pc |-> "runs", failing |-> FALSE, closed |-> FALSE, end |-> "none"]

FlaskInit ==
    /\ queue = << >>
    /\ owner = "none"
    /\ sender = NoRun
    /\ reader = "asks"
    /\ got = << >>
    /\ filled = FALSE

\* The events of the run are numbered; its error event and the None that ends the stream.
ErrorEvent == 0
End == -1

QueueFull == Len(queue) >= QueueSize
Sending == IF sender.failing THEN ErrorEvent ELSE calls
NextPc == IF sender.failing THEN "finish" ELSE "runs"

\* send_event up to its put.
SendEvent ==
    /\ part = "stream" /\ sender.pc = "runs"
    /\ calls < MaxCalls["stream"]
    /\ calls' = calls + 1
    /\ sender' = IF sender.closed THEN sender ELSE [sender EXCEPT !.pc = "put"]
    /\ UNCHANGED <<part, adapter, busy, queue, owner, reader, got, filled>>

RunPuts ==
    /\ sender.pc \in {"put", "wait"}
    /\ ~QueueFull
    /\ queue' = Append(queue, Sending)
    /\ sender' = [sender EXCEPT !.pc = NextPc]
    /\ UNCHANGED <<sharedVars, owner, reader, got, filled>>

RunFindsFull ==
    /\ sender.pc = "put"
    /\ QueueFull
    /\ filled' = TRUE
    /\ sender' = [sender EXCEPT !.pc = "bind"]
    /\ UNCHANGED <<sharedVars, queue, owner, reader, got>>

RunWaits ==
    /\ sender.pc = "bind"
    /\ owner # "generator"
    /\ owner' = "run"
    /\ sender' = [sender EXCEPT !.pc = "wait"]
    /\ UNCHANGED <<sharedVars, queue, reader, got, filled>>

\* Mutant: send_event catches every exception, and drops the event.
SendDropsRefused ==
    /\ sender.pc = "bind"
    /\ owner = "generator"
    /\ sender' = [sender EXCEPT !.pc = NextPc]
    /\ UNCHANGED <<sharedVars, queue, owner, reader, got, filled>>

\* The RuntimeError leaves send_event: the run fails and sends an error event, and when
\* that is refused too it ends without finish().
SendRefused ==
    /\ sender.pc = "bind"
    /\ owner = "generator"
    /\ sender' = IF sender.failing THEN [sender EXCEPT !.pc = "ended", !.end = "refused"]
                 ELSE [sender EXCEPT !.pc = "put", !.failing = TRUE]
    /\ UNCHANGED <<sharedVars, queue, owner, reader, got, filled>>

\* Mutant: a put that timed out does not close the stream.
TimeoutStaysOpen ==
    /\ sender.pc = "wait"
    /\ sender' = [sender EXCEPT !.pc = NextPc]
    /\ UNCHANGED <<sharedVars, queue, owner, reader, got, filled>>

\* put_timeout has passed.
SendTimesOut ==
    /\ sender.pc = "wait"
    /\ sender' = [sender EXCEPT !.pc = NextPc, !.closed = TRUE]
    /\ UNCHANGED <<sharedVars, queue, owner, reader, got, filled>>

\* A step of the run raises.
RunFails ==
    /\ part = "stream" /\ sender.pc = "runs"
    /\ sender' = [sender EXCEPT !.failing = TRUE, !.pc = IF sender.closed THEN "finish" ELSE "put"]
    /\ UNCHANGED <<sharedVars, queue, owner, reader, got, filled>>

\* The input is too long, or the session cannot be loaded: nothing is sent and nothing
\* is finished, the thread of the pool logs at most.
Rejected ==
    /\ part = "stream" /\ sender.pc = "runs"
    /\ calls = 0
    /\ sender' = [sender EXCEPT !.pc = "ended", !.end = "rejected"]
    /\ UNCHANGED <<sharedVars, queue, owner, reader, got, filled>>

\* Mutant: the end is put before what is waiting.
FinishInFront ==
    /\ part = "stream" /\ sender.pc \in {"runs", "finish"}
    /\ sender' = [sender EXCEPT !.pc = "ended", !.end = "finished"]
    /\ IF QueueFull THEN filled' = TRUE /\ UNCHANGED queue
       ELSE queue' = <<End>> \o queue /\ UNCHANGED filled
    /\ UNCHANGED <<sharedVars, owner, reader, got>>

\* finish(): the sentinel needs a place and never waits for one.
FinishStream ==
    /\ part = "stream" /\ sender.pc \in {"runs", "finish"}
    /\ sender' = [sender EXCEPT !.pc = "ended", !.end = "finished", !.closed = @ \/ QueueFull]
    /\ IF QueueFull THEN filled' = TRUE /\ UNCHANGED queue
       ELSE queue' = Append(queue, End) /\ UNCHANGED filled
    /\ UNCHANGED <<sharedVars, owner, reader, got>>

-----------------------------------------------------------------------------
\* get(), at once or after waiting: the client receives the event, or the stream ends.
Receive ==
    /\ part = "stream" /\ reader \in {"asks", "waits"}
    /\ queue # << >>
    /\ queue' = Tail(queue)
    /\ IF Head(queue) = End THEN reader' = "ended" /\ UNCHANGED got
       ELSE reader' = "asks" /\ got' = Append(got, Head(queue))
    /\ UNCHANGED <<sharedVars, owner, sender, filled>>

FindsEmpty ==
    /\ part = "stream" /\ reader = "asks"
    /\ queue = << >>
    /\ reader' = "bind"
    /\ UNCHANGED <<sharedVars, queue, owner, sender, got, filled>>

GeneratorWaits ==
    /\ reader = "bind"
    /\ owner # "run"
    /\ owner' = "generator"
    /\ reader' = "waits"
    /\ UNCHANGED <<sharedVars, queue, sender, got, filled>>

\* get() raises: the generator yields an error event of its own, and ends.
Broken ==
    /\ reader = "bind"
    /\ owner = "run"
    /\ reader' = "broken"
    /\ UNCHANGED <<sharedVars, queue, owner, sender, got, filled>>

\* Mutant: a generator that timed out has come to its end.
HeartbeatEnds ==
    /\ reader = "waits"
    /\ reader' = "ended"
    /\ UNCHANGED <<sharedVars, queue, owner, sender, got, filled>>

Heartbeat ==
    /\ reader = "waits"
    /\ reader' = "asks"
    /\ UNCHANGED <<sharedVars, queue, owner, sender, got, filled>>

\* The client disconnects while the generator is at a yield.
ClientGone ==
    /\ part = "stream" /\ reader = "asks"
    /\ reader' = "gone"
    /\ UNCHANGED <<sharedVars, queue, owner, sender, got, filled>>

FlaskNext ==
    \/ SendEvent \/ RunPuts \/ RunFindsFull \/ RunWaits \/ SendRefused \/ SendTimesOut
    \/ RunFails \/ Rejected \/ FinishStream
    \/ Receive \/ FindsEmpty \/ GeneratorWaits \/ Broken \/ Heartbeat \/ ClientGone
=============================================================================
