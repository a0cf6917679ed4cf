---------------------------- MODULE AgentRequest ----------------------------
(***************************************************************************)
(* Requests through Agent.run and Agent.run_stream (core/agent.py): what   *)
(* concurrent requests do to the session memory, the response caches and   *)
(* their SSE streams, from await to await, with the ReAct loop.            *)
(*                                                                         *)
(* The components have their own modules; here a turn is appended in one   *)
(* step (LayeredMemory), a stream is what was sent before finish()         *)
(* (SSEStream), a chain or a plan succeeds or fails (ScenarioEngine,       *)
(* PlanStore).  The session is the user's; an answer is known by its kind  *)
(* and by the request it was made for.  An action of the model is its      *)
(* deduplication key.                                                      *)
(***************************************************************************)
EXTENDS Integers, Sequences, FiniteSets

CONSTANTS Requests, User, Query, Action,
          MaxIterations,  \* max_iterations
          CacheOn,        \* enable_cache
          Planner,        \* enable_planner
          NoAnswer,
          MaxClears       \* bound on the clears and expiries of cache entries

Answer == [kind : {"fresh", "apology", "stage", "hook", "error"}, by : Requests]

ASSUME RequestAssumption ==
    /\ MaxIterations \in Nat /\ MaxClears \in Nat
    /\ CacheOn \in BOOLEAN /\ Planner \in BOOLEAN
    /\ NoAnswer \notin Answer /\ "none" \notin Action

VARIABLES
    req,       \* what each request is doing
    turns,     \* the turns of each user's session: who added them, what was said
    cache,     \* level 2 of the cache, by user and query
    scenCache, \* the scenario cache, by user: "order_status_$user_id"
    events,    \* what each stream was sent
    finished,  \* the requests whose stream is finished
    ran,       \* history: the actions each ReAct loop has executed
    greeted,   \* history: the users whose SESSION_START was dispatched
    clears     \* history: cache entries cleared or expired

vars == <<req, turns, cache, scenCache, events, finished, ran, greeted, clears>>
shared == <<turns, cache, scenCache, greeted, clears>>
stream == <<events, finished>>

Key == User \X Query

\* What the router makes of the answer of the light model: DIRECT when it cannot
\* be read or the model raised, REACT when it names no known scenario; a verdict
\* for a scenario may come without a name.
Verdicts == {"direct", "scenario", "unnamed", "react"}

Request == [pc : {"new", "open", "starting", "pipeline", "lookup", "show", "classify",
                  "execute", "direct", "chain", "plan", "think", "tool", "conclude",
                  "respond", "record", "remember", "ending", "done"},
            user : User, query : Query, mode : {"run", "stream"},
            first : BOOLEAN,     \* is_first_turn
            level : {"none"} \cup Verdicts,
            iter : 0..MaxIterations, acts : SUBSET Action, tool : Action \cup {"none"},
            answer : Answer \cup {NoAnswer},
            streamed : BOOLEAN,  \* answer_already_streamed
            kept : BOOLEAN,      \* the answer goes to the cache
            outcome : {"open", "ok", "error", "rejected", "aborted", "raised"}]

New(u, q, mode) ==
    [pc |-> "new", user |-> u, query |-> q, mode |-> mode, first |-> FALSE,
     level |-> "none", iter |-> 0, acts |-> {}, tool |-> "none", answer |-> NoAnswer,
     streamed |-> FALSE, kept |-> FALSE, outcome |-> "open"]

Init ==
    /\ req \in [Requests -> {New(u, q, m) : u \in User, q \in Query, m \in {"run", "stream"}}]
    /\ turns = [u \in User |-> << >>]
    /\ cache = [k \in Key |-> NoAnswer] /\ scenCache = [u \in User |-> NoAnswer]
    /\ events = [r \in Requests |-> << >>] /\ finished = {}
    /\ ran = [r \in Requests |-> << >>]
    /\ greeted = {} /\ clears = 0

At(r, pc) == req[r].pc = pc
Fresh(r, kind) == [kind |-> kind, by |-> r]
Goto(r, pc) == req' = [req EXCEPT ![r].pc = pc]
Done(r, outcome) == req' = [req EXCEPT ![r].pc = "done", ![r].outcome = outcome]

\* The answer a was found: what follows is pc.
Answers(r, a, pc) == req' = [req EXCEPT ![r].answer = a, ![r].pc = pc]

\* A finished stream drops what it is sent.
Send(r, es) ==
    events' = IF r \in finished \/ req[r].mode = "run" THEN events
              ELSE [events EXCEPT ![r] = @ \o es]

\* _stream_answer
Shown == <<"answer_start", "answer_chunk", "answer_end">>

FinishStream(r) ==
    finished' = IF req[r].mode = "stream" THEN finished \cup {r} ELSE finished

-----------------------------------------------------------------------------
(* Up to the classification.                                               *)

\* _validate_input.  A stream that is rejected is not finished.
Reject(r) ==
    /\ At(r, "new")
    /\ Done(r, "rejected")
    /\ UNCHANGED <<shared, stream, ran>>

Accept(r) ==
    /\ At(r, "new")
    /\ Goto(r, "open")
    /\ UNCHANGED <<shared, stream, ran>>

\* memory.get raises outside of the try.
OpenRaises(r) ==
    /\ At(r, "open")
    /\ Done(r, "raised")
    /\ UNCHANGED <<shared, stream, ran>>

\* Mutant: the first request of a session is taken for a later one.
OpenSecond(r) ==
    /\ At(r, "open")
    /\ req' = [req EXCEPT ![r].pc = "starting",
                          ![r].first = Len(turns[req[r].user]) = 1]
    /\ UNCHANGED <<shared, stream, ran>>

\* memory.get; is_first_turn is read here, before the first hook.
Open(r) ==
    /\ At(r, "open")
    /\ req' = [req EXCEPT ![r].pc = "starting", ![r].first = turns[req[r].user] = << >>]
    /\ UNCHANGED <<shared, stream, ran>>

\* SESSION_START, REQUEST_START; only run() has a pipeline.
Start(r) ==
    /\ At(r, "starting")
    /\ greeted' = IF req[r].first THEN greeted \cup {req[r].user} ELSE greeted
    /\ Goto(r, IF req[r].mode = "run" THEN "pipeline" ELSE "lookup")
    /\ Send(r, <<"initialized">>)
    /\ UNCHANGED <<turns, cache, scenCache, clears, finished, ran>>

StageAnswers(r) ==
    /\ At(r, "pipeline")
    /\ Answers(r, Fresh(r, "stage"), "record")
    /\ UNCHANGED <<shared, stream, ran>>

StageAborts(r) ==
    /\ At(r, "pipeline")
    /\ Done(r, "aborted")
    /\ UNCHANGED <<shared, stream, ran>>

\* Mutant: the user is not part of the key.
AnyonesKey(r) == <<CHOOSE u \in User : TRUE, req[r].query>>

KeyOf(r) == <<req[r].user, req[r].query>>

\* Mutant: a hit is returned at once.
CheckCacheReturns(r) ==
    /\ req[r].pc \in {"pipeline", "lookup"}
    /\ IF CacheOn /\ cache[KeyOf(r)] # NoAnswer
       THEN req' = [req EXCEPT ![r].answer = cache[KeyOf(r)], ![r].pc = "done",
                               ![r].outcome = "ok"]
       ELSE Goto(r, "classify")
    /\ UNCHANGED <<shared, stream, ran>>

\* cache.query, in one section with the end of the pipeline.
CheckCache(r) ==
    /\ req[r].pc \in {"pipeline", "lookup"}
    /\ IF CacheOn /\ cache[KeyOf(r)] # NoAnswer
       THEN Answers(r, cache[KeyOf(r)], IF req[r].mode = "run" THEN "record" ELSE "show")
       ELSE Goto(r, "classify")
    /\ UNCHANGED <<shared, stream, ran>>

\* A hit is streamed and the stream finished before the turn is recorded.
Show(r) ==
    /\ At(r, "show")
    /\ Send(r, <<"cache_hit">> \o Shown)
    /\ FinishStream(r)
    /\ Goto(r, "record")
    /\ UNCHANGED <<shared, ran>>

\* A BEFORE_CLASSIFY hook returns short_circuit: run_stream does not look.
HookStops(r) ==
    /\ At(r, "classify") /\ req[r].mode = "run"
    /\ Answers(r, Fresh(r, "hook"), "record")
    /\ UNCHANGED <<shared, stream, ran>>

\* The router's verdict; AFTER_CLASSIFY.
Classified(r, verdict) ==
    /\ At(r, "classify")
    /\ req' = [req EXCEPT ![r].pc = "execute", ![r].level = verdict]
    /\ UNCHANGED <<shared, stream, ran>>

-----------------------------------------------------------------------------
(* Execution.                                                              *)

BeginReact(r) ==
    req' = [req EXCEPT ![r].iter = IF MaxIterations > 0 THEN 1 ELSE 0,
                       ![r].pc = IF MaxIterations > 0 THEN "think" ELSE "conclude"]

\* _resolve_execution_level: a scenario whose slots are not all filled is left to
\* the ReAct loop; one without a name is not executed.
Level(verdict, filled) ==
    CASE verdict = "scenario" /\ ~filled -> "react"
      [] verdict = "unnamed"             -> "direct"
      [] OTHER                           -> verdict

\* The first section of the chosen path; a cached scenario answers in it.
Execute(r, filled) ==
    LET level  == Level(req[r].level, filled)
        cached == scenCache[req[r].user]
    IN  /\ At(r, "execute")
        /\ \/ level = "direct" /\ Goto(r, "direct")
           \/ /\ level = "scenario"
              /\ IF CacheOn /\ cached # NoAnswer
                 THEN Answers(r, cached, "respond") ELSE Goto(r, "chain")
           \/ /\ level = "react"
              /\ IF Planner THEN Goto(r, "plan") ELSE BeginReact(r)
        /\ UNCHANGED <<shared, stream, ran>>

\* The stream shows the chunks as they come, before the answer is complete.
DirectStarts(r) ==
    /\ At(r, "direct") /\ req[r].mode = "stream" /\ ~req[r].streamed
    /\ req' = [req EXCEPT ![r].streamed = TRUE]
    /\ Send(r, <<"answer_start", "answer_chunk">>)
    /\ UNCHANGED <<shared, finished, ran>>

DirectAnswers(r) ==
    /\ At(r, "direct") /\ (req[r].mode = "stream" => req[r].streamed)
    /\ Answers(r, Fresh(r, "fresh"), "respond")
    /\ UNCHANGED <<shared, stream, ran>>

\* The chain succeeded and its result was formatted: cached.
ChainAnswers(r) ==
    /\ At(r, "chain")
    /\ scenCache' = IF CacheOn THEN [scenCache EXCEPT ![req[r].user] = Fresh(r, "fresh")]
                    ELSE scenCache
    /\ Answers(r, Fresh(r, "fresh"), "respond")
    /\ UNCHANGED <<turns, cache, greeted, clears, stream, ran>>

ChainFails(r) ==
    /\ At(r, "chain")
    /\ Answers(r, Fresh(r, "apology"), "respond")
    /\ UNCHANGED <<shared, stream, ran>>

PlanAnswers(r) ==
    /\ At(r, "plan")
    /\ Answers(r, Fresh(r, "fresh"), "respond")
    /\ UNCHANGED <<shared, stream, ran>>

PlanFallsBack(r) ==
    /\ At(r, "plan")
    /\ BeginReact(r)
    /\ UNCHANGED <<shared, stream, ran>>

\* Mutant: the loop stops one iteration too late.
LastIterationLate(r) == req[r].iter > MaxIterations

\* check_max_iterations.  What else ends the loop is ThinkFinal.
LastIteration(r) == req[r].iter >= MaxIterations

\* Mutant: nothing is remembered of the actions before.
NothingExecuted(r) == {}

Executed(r) == req[r].acts

\* A thought with an action: executed unless it was before.
ThinkAction(r, a) ==
    /\ At(r, "think")
    /\ IF LastIteration(r) \/ a \in Executed(r)
       THEN Goto(r, "conclude") /\ UNCHANGED ran
       ELSE /\ req' = [req EXCEPT ![r].pc = "tool", ![r].tool = a]
            /\ ran' = [ran EXCEPT ![r] = Append(@, a)]
    /\ UNCHANGED <<shared, stream>>

NextIteration(r) ==
    req' = [req EXCEPT ![r].pc = "think", ![r].tool = "none",
              ![r].iter = @ + 1,
              ![r].acts = IF req[r].tool = "none" THEN @ ELSE @ \cup {req[r].tool}]

\* Neither an action nor a final answer.
ThinkNothing(r) ==
    /\ At(r, "think")
    /\ IF LastIteration(r) THEN Goto(r, "conclude") ELSE NextIteration(r)
    /\ UNCHANGED <<shared, stream, ran>>

ThinkFinal(r) ==
    /\ At(r, "think")
    /\ Goto(r, "conclude")
    /\ UNCHANGED <<shared, stream, ran>>

\* The tool's output, or its error, is an observation ...
ToolObserved(r) ==
    /\ At(r, "tool")
    /\ NextIteration(r)
    /\ UNCHANGED <<shared, stream, ran>>

\* ... or the answer itself.
ToolAnswers(r) ==
    /\ At(r, "tool")
    /\ Answers(r, Fresh(r, "fresh"), "respond")
    /\ UNCHANGED <<shared, stream, ran>>

Conclude(r) ==
    /\ At(r, "conclude")
    /\ Answers(r, Fresh(r, "fresh"), "respond")
    /\ UNCHANGED <<shared, stream, ran>>

-----------------------------------------------------------------------------
(* The answer goes out.                                                    *)

\* Mutant: the answer is sent whole although its chunks are out.
RespondAgain(r) ==
    /\ At(r, "respond")
    /\ Send(r, Shown \o <<"completed">>)
    /\ FinishStream(r)
    /\ req' = [req EXCEPT ![r].pc = "record", ![r].kept = TRUE]
    /\ UNCHANGED <<shared, ran>>

\* Mutant: the stream stays open until the request is over.
RespondOpen(r) ==
    /\ At(r, "respond")
    /\ Send(r, (IF req[r].streamed THEN <<"answer_end">> ELSE Shown) \o <<"completed">>)
    /\ req' = [req EXCEPT ![r].pc = "record", ![r].kept = TRUE]
    /\ UNCHANGED <<shared, finished, ran>>

\* on_before_respond and its hooks; the stream is finished before the turn is
\* recorded.
Respond(r) ==
    /\ At(r, "respond")
    /\ Send(r, (IF req[r].streamed THEN <<"answer_end">> ELSE Shown) \o <<"completed">>)
    /\ FinishStream(r)
    /\ req' = [req EXCEPT ![r].pc = "record", ![r].kept = TRUE]
    /\ UNCHANGED <<shared, ran>>

AppendTurn(r) ==
    turns' = [turns EXCEPT ![req[r].user] = Append(@, [by |-> r, answer |-> req[r].answer])]

\* add_turn; a cached, a hook's or a stage's answer needs no more.
Record(r) ==
    /\ At(r, "record")
    /\ AppendTurn(r)
    /\ IF req[r].kept THEN Goto(r, "remember") ELSE Done(r, "ok")
    /\ UNCHANGED <<cache, scenCache, greeted, clears, stream, ran>>

Remember(r) ==
    /\ At(r, "remember")
    /\ cache' = IF CacheOn THEN [cache EXCEPT ![KeyOf(r)] = req[r].answer] ELSE cache
    /\ Goto(r, "ending")
    /\ UNCHANGED <<turns, scenCache, greeted, clears, stream, ran>>

\* on_request_end, REQUEST_END.
End(r) ==
    /\ At(r, "ending")
    /\ Done(r, "ok")
    /\ UNCHANGED <<shared, stream, ran>>

\* Mutant: the error path does not finish the stream.
FailOpen(r) ==
    /\ Send(r, <<"error">>)
    /\ UNCHANGED finished
    /\ req' = [req EXCEPT ![r].pc = "done", ![r].outcome = "error",
                          ![r].answer = Fresh(r, "error")]

\* The except clause.
Fail(r) ==
    /\ Send(r, <<"error">>)
    /\ FinishStream(r)
    /\ req' = [req EXCEPT ![r].pc = "done", ![r].outcome = "error",
                          ![r].answer = Fresh(r, "error")]

\* An overridden on_* method, the model, or validate_input raises.
Raises(r) ==
    /\ req[r].pc \in {"starting", "classify", "direct", "chain", "think", "tool",
                      "conclude", "respond", "ending"}
    /\ Fail(r)
    /\ UNCHANGED <<shared, ran>>

\* add_turn raises: the summarizer and the load come before the turn is
\* appended or after, the save comes after.
RecordRaises(r) ==
    /\ At(r, "record")
    /\ AppendTurn(r) \/ UNCHANGED turns
    /\ Fail(r)
    /\ UNCHANGED <<cache, scenCache, greeted, clears, ran>>

-----------------------------------------------------------------------------
(* A time to live that has passed, clear_user_cache, clear_scenario_cache. *)

Forget(k) ==
    /\ clears < MaxClears /\ clears' = clears + 1
    /\ \/ cache' = [cache EXCEPT ![k] = NoAnswer] /\ UNCHANGED scenCache
       \/ scenCache' = [scenCache EXCEPT ![k[1]] = NoAnswer] /\ UNCHANGED cache
    /\ UNCHANGED <<req, turns, greeted, stream, ran>>

React(r) ==
    \/ \E a \in Action : ThinkAction(r, a)
    \/ ThinkNothing(r) \/ ThinkFinal(r)
    \/ ToolObserved(r) \/ ToolAnswers(r) \/ Conclude(r)

Advance(r) ==
    \/ Accept(r) \/ Open(r) \/ Start(r) \/ StageAnswers(r) \/ StageAborts(r)
    \/ CheckCache(r) \/ Show(r) \/ HookStops(r)
    \/ \E verdict \in Verdicts : Classified(r, verdict)
    \/ (\E filled \in BOOLEAN : Execute(r, filled)) \/ DirectStarts(r) \/ DirectAnswers(r)
    \/ ChainAnswers(r) \/ ChainFails(r) \/ PlanAnswers(r) \/ PlanFallsBack(r)
    \/ React(r)
    \/ Respond(r) \/ Record(r) \/ Remember(r) \/ End(r)

Failure(r) == Reject(r) \/ OpenRaises(r) \/ Raises(r) \/ RecordRaises(r)

Next ==
    \/ \E r \in Requests : Advance(r) \/ Failure(r)
    \/ \E k \in Key : Forget(k)

Spec == Init /\ [][Next]_vars

-----------------------------------------------------------------------------
Turn == [by : Requests, answer : Answer]

TypeOK ==
    /\ req \in [Requests -> Request]
    /\ turns \in [User -> Seq(Turn)]
    /\ cache \in [Key -> Answer \cup {NoAnswer}]
    /\ scenCache \in [User -> Answer \cup {NoAnswer}]
    /\ finished \subseteq Requests
    /\ ran \in [Requests -> Seq(Action)]
    /\ greeted \subseteq User /\ clears \in 0..MaxClears

Sent(r, e) == {i \in DOMAIN events[r] : events[r][i] = e}

\* A client gets the answer once, whether its chunks were streamed or not; one
\* that was told "completed" is not told "error" afterwards, although memory,
\* cache and hooks come after the answer and may fail; and the stream of a
\* request that was answered or failed is finished: its generator ends.
ClientTold ==
    \A r \in Requests :
        /\ Cardinality(Sent(r, "answer_start")) <= 1
        /\ Cardinality(Sent(r, "answer_end")) <= 1
        /\ Sent(r, "completed") = {} \/ Sent(r, "error") = {}
        /\ req[r].mode = "stream" /\ req[r].outcome \in {"ok", "error"} => r \in finished

TurnsOf(r) == {i \in DOMAIN turns[req[r].user] : turns[req[r].user][i].by = r}

\* Every answered request is one turn of its session, on each of the paths that
\* lead to an answer; what was rejected or aborted is none.
OneTurn ==
    \A r \in Requests :
        /\ Cardinality(TurnsOf(r)) <= 1
        /\ req[r].outcome = "ok" =>
             \E i \in TurnsOf(r) : turns[req[r].user][i].answer = req[r].answer
        /\ req[r].outcome \in {"rejected", "aborted", "raised"} => TurnsOf(r) = {}

\* What the cache answers was said to the same user, and is a turn of his.
CacheOwn ==
    \A k \in Key : cache[k] # NoAnswer =>
        \E i \in DOMAIN turns[k[1]] : turns[k[1]][i].answer = cache[k]

\* A ReAct loop never executes an action twice, and none in its last iteration.
NoActionTwice ==
    \A r \in Requests :
        /\ \A i, j \in DOMAIN ran[r] : ran[r][i] = ran[r][j] => i = j
        /\ ran[r] # << >> => Len(ran[r]) < MaxIterations

\* A session has seen SESSION_START before its first turn, also when its first
\* requests overlap.
GreetedFirst == \A u \in User : turns[u] # << >> => u \in greeted

\* What a request does to its client and to the world is done once.
ActedOnce == ClientTold /\ NoActionTwice

\* A session is greeted, and then gets one turn of each request that was answered.
RecordedOnce == GreetedFirst /\ OneTurn

=============================================================================
