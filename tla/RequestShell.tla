----------------------------- MODULE RequestShell -----------------------------
(***************************************************************************)
(* What stands around the body of a request: the middleware chain          *)
(* (middleware/base.py), the stages of the request pipeline                *)
(* (core/pipeline.py, knowledge_base/stage.py) and the hooks of            *)
(* BEFORE_CLASSIFY (core/hooks.py).  Each is a list of the agent that a    *)
(* request walks by an index of its own, awaiting every member, while      *)
(* other tasks, and the members themselves, change the list.               *)
(*                                                                         *)
(* A registration is one member: what is registered again is another one.  *)
(***************************************************************************)
EXTENDS Integers, Sequences, SequencesExt

CONSTANTS Runs,       \* the requests, calls of run() or run_stream()
          Hooks, Stages, Middlewares,
          KB,         \* the stages set_knowledge_base makes
          Kind,       \* of a hook: "python", "llm" or "shell"
          MaxAgain,   \* bound on the repeated calls of next_handler
          MaxEdits    \* bound on the changes of the lists

ASSUME ShellAssumption ==
    /\ Hooks \cap Stages = {} /\ (Hooks \cup Stages) \cap Middlewares = {}
    /\ KB \subseteq Stages /\ Kind \in [Hooks -> {"python", "llm", "shell"}]
    /\ MaxAgain \in Nat /\ MaxEdits \in Nat

VARIABLES
    hooks, stages, chain,  \* the lists of the agent
    walk,                  \* what each request is doing
    left,                  \* the hooks that left a process behind
    known,                 \* history: all members ever, in order
    edits                  \* history: the changes of the lists

shellVars == <<hooks, stages, chain, walk, left, known, edits>>
lists == <<hooks, stages, chain, known, edits>>

Member == Hooks \cup Stages \cup Middlewares

Walk == [pc : {"new", "next", "before", "open", "stages", "stage", "dispatch", "hooks",
               "hook", "body", "after", "raising", "done"},
         mode : {"run", "stream"},
         frames : Seq(Middlewares), \* the middlewares that await next_handler
         index : Nat,               \* the index of MiddlewareChain.execute
         i : Nat,                   \* the iterator of the list in hand
         at : Member \cup {"none"}, \* the member awaited
         response : BOOLEAN,        \* the context in hand has a response
         outcome : {"open", "response", "raised"},
         began : Seq(Member),       \* history: the list when its walk began
         asked : Seq(Member),       \* history: the members awaited on this walk
         entered : Seq(Middlewares),\* history: the middlewares entered
         bodies : Nat,              \* history: how often the body was begun
         made : BOOLEAN,            \* history: a middleware made a response
         again : 0..MaxAgain,       \* history: repeated calls of next_handler
         lost : SUBSET Member,      \* history: members removed since it began
         cut : BOOLEAN]             \* history: the walk ended before its list

New(mode) ==
    [pc |-> "new", mode |-> mode, frames |-> << >>, index |-> 0, i |-> 0, at |-> "none",
     response |-> FALSE, outcome |-> "open", began |-> << >>, asked |-> << >>,
     entered |-> << >>, bodies |-> 0, made |-> FALSE, again |-> 0, lost |-> {},
     cut |-> FALSE]

ShellInit ==
    /\ hooks \in {<< >>} \cup {<<h>> : h \in Hooks}
    /\ stages \in {<< >>} \cup {<<s>> : s \in Stages}
    /\ chain \in {<< >>} \cup {<<m>> : m \in Middlewares}
    /\ walk \in [Runs -> {New(m) : m \in {"run", "stream"}}]
    /\ left = {} /\ edits = 0
    /\ known = hooks \o stages \o chain

Stands(r, pc) == walk[r].pc = pc

-----------------------------------------------------------------------------
(* The middleware chain: only run() has one.                               *)

Enters(r) ==
    /\ Stands(r, "new")
    /\ walk' = [walk EXCEPT ![r].pc =
                  IF walk[r].mode = "run" /\ chain # << >> THEN "next" ELSE "open"]
    /\ UNCHANGED <<lists, left>>

\* Mutant: each frame counts from itself, so that a second call of
\* next_handler enters what follows again.
NextHandlerPerFrame(r) ==
    LET k == Len(walk[r].frames)
    IN  /\ Stands(r, "next")
        /\ walk' = [walk EXCEPT ![r] =
               IF k < Len(chain)
               THEN [@ EXCEPT !.pc = "before", !.index = k + 1,
                              !.frames = Append(@, chain[k + 1]),
                              !.entered = Append(@, chain[k + 1])]
               ELSE [@ EXCEPT !.pc = "open"]]
        /\ UNCHANGED <<lists, left>>

\* next_handler: the next middleware of the list as it is now, or the body.
NextHandler(r) ==
    LET w == walk[r]
        k == w.index
    IN  /\ Stands(r, "next")
        /\ walk' = [walk EXCEPT ![r] =
               IF k < Len(chain)
               THEN [w EXCEPT !.pc = "before", !.index = k + 1,
                              !.frames = Append(@, chain[k + 1]),
                              !.entered = Append(@, chain[k + 1])]
               ELSE [w EXCEPT !.pc = "open"]]
        /\ UNCHANGED <<lists, left>>

\* Mutant: the response of a context that has none.
BackLenient(w, raised) ==
    [w EXCEPT !.pc = IF w.frames = << >> THEN "done" ELSE IF raised THEN "raising" ELSE "after",
              !.outcome = IF w.frames # << >> THEN @
                          ELSE IF ~raised THEN "response" ELSE "raised"]

\* A middleware comes back: to the one that awaits it, or out of execute(),
\* where a context without a response is a KeyError.
Back(w, raised) ==
    [w EXCEPT !.pc = IF w.frames = << >> THEN "done" ELSE IF raised THEN "raising" ELSE "after",
              !.outcome = IF w.frames # << >> THEN @
                          ELSE IF ~raised /\ w.response THEN "response" ELSE "raised"]

\* The context a middleware returns: the one it has, one it has put a response
\* into, or another dictionary, which has none.
Contexts(w) ==
    {w, [w EXCEPT !.response = TRUE, !.made = TRUE], [w EXCEPT !.response = FALSE]}

\* Before or after its await of next_handler, a middleware calls it (again),
\* raises, or returns a context: what it answers itself is the response too.
Middleware(r) ==
    LET w == walk[r] IN
    /\ w.pc \in {"before", "after", "raising"}
    /\ \/ /\ w.pc = "before" \/ w.again < MaxAgain
          /\ walk' = [walk EXCEPT ![r].pc = "next",
                                  ![r].again = IF w.pc = "before" THEN @ ELSE @ + 1]
       \/ \E v \in Contexts([w EXCEPT !.frames = Front(@)]), raised \in BOOLEAN :
             walk' = [walk EXCEPT ![r] = Back(v, raised)]
    /\ UNCHANGED <<lists, left>>

\* The body returns to the middleware around it, or the request is over.
BodyReturns(w, responds) ==
    Back([w EXCEPT !.response = @ \/ responds, !.at = "none", !.i = 0, !.began = << >>,
                   !.asked = << >>, !.lost = {}, !.cut = FALSE], ~responds)

-----------------------------------------------------------------------------
(* The body of the request: the pipeline ...                               *)

\* A walk of the list begins.
Walks(w, list, pc) ==
    [w EXCEPT !.pc = pc, !.i = 0, !.began = list, !.asked = << >>, !.lost = {}, !.cut = FALSE]

\* memory.get may raise out of run(), on_request_start into its response.  Only
\* run() has a pipeline.
Open(r) ==
    /\ Stands(r, "open")
    /\ LET w == [walk[r] EXCEPT !.bodies = @ + 1]
       IN  \/ \E responds \in BOOLEAN : walk' = [walk EXCEPT ![r] = BodyReturns(w, responds)]
           \/ walk' = [walk EXCEPT ![r] =
                 IF w.mode = "run" THEN Walks(w, stages, "stages") ELSE [w EXCEPT !.pc = "dispatch"]]
    /\ UNCHANGED <<lists, left>>

\* The next member of the list as it is now, or the end of the walk.
Step(w, list, awaiting, end) ==
    IF w.i < Len(list)
    THEN [w EXCEPT !.pc = awaiting, !.i = @ + 1, !.at = list[w.i + 1],
                   !.asked = Append(@, list[w.i + 1])]
    ELSE [w EXCEPT !.pc = end]

NextStage(r) ==
    /\ Stands(r, "stages")
    /\ walk' = [walk EXCEPT ![r] = Step(@, stages, "stage", "dispatch")]
    /\ UNCHANGED <<lists, left>>

\* A stage raised: the pipeline aborts, and the abort is the response.
StageRaises(r) ==
    /\ Stands(r, "stage") /\ walk[r].at \notin KB
    /\ walk' = [walk EXCEPT ![r] = BodyReturns(@, TRUE)]
    /\ UNCHANGED <<lists, left>>

\* SHORT_CIRCUIT or ABORT.  One with an answer, and each abort, is the
\* response; an end without an answer goes on with the body.
StageStops(r) ==
    /\ Stands(r, "stage")
    /\ \/ walk' = [walk EXCEPT ![r] = BodyReturns(@, TRUE)]
       \/ walk[r].at \notin KB /\ walk' = [walk EXCEPT ![r].pc = "dispatch", ![r].cut = TRUE]
    /\ UNCHANGED <<lists, left>>

\* CONTINUE; a knowledge base that finds nothing, nothing good or that fails.
StageContinues(r) ==
    /\ Stands(r, "stage")
    /\ walk' = [walk EXCEPT ![r].pc = "stages"]
    /\ UNCHANGED <<lists, left>>

-----------------------------------------------------------------------------
(* ... the hooks of BEFORE_CLASSIFY, and the rest.                         *)

\* How a hook may end.  A python hook has a condition; a model's text that does
\* not parse, a command that is missing or fails and invalid output go on.
PythonHook == {"skip", "continue", "stop", "raise"}
LLMHook == {"continue", "stop", "raise"}
ShellHook == {"continue", "stop", "raise", "timeout"}

HookEnds(h) == CASE Kind[h] = "python" -> PythonHook
             [] Kind[h] = "llm" -> LLMHook
             [] Kind[h] = "shell" -> ShellHook

\* on_before_classify may raise: the error is the response.
StagesDone(r) ==
    /\ Stands(r, "dispatch")
    /\ \/ walk' = [walk EXCEPT ![r] = BodyReturns(@, TRUE)]
       \/ walk' = [walk EXCEPT ![r] = Walks(@, hooks, "hooks")]
    /\ UNCHANGED <<lists, left>>

NextHook(r) ==
    /\ Stands(r, "hooks")
    /\ walk' = [walk EXCEPT ![r] = Step(@, hooks, "hook", "body")]
    /\ UNCHANGED <<lists, left>>

\* Mutant: a hook that raises ends the dispatch.
HookDoneBreaks(r) ==
    /\ Stands(r, "hook")
    /\ \E end \in HookEnds(walk[r].at) \ {"stop"} :
          /\ left' = IF end = "timeout" THEN left \cup {walk[r].at} ELSE left
          /\ walk' = [walk EXCEPT ![r].pc = IF end = "raise" THEN "body" ELSE "hooks"]
    /\ UNCHANGED lists

\* The hook is skipped, handled or raises: the next one has its turn.  A
\* command that timed out is not killed.
HookDone(r) ==
    /\ Stands(r, "hook")
    /\ \E end \in HookEnds(walk[r].at) \ {"stop"} :
          left' = IF end = "timeout" THEN left \cup {walk[r].at} ELSE left
    /\ walk' = [walk EXCEPT ![r].pc = "hooks"]
    /\ UNCHANGED lists

\* short_circuit or abort ends the dispatch.  Only run() looks at the result, and
\* only at a short_circuit that brings an answer.
HookStops(r) ==
    /\ Stands(r, "hook") /\ "stop" \in HookEnds(walk[r].at)
    /\ \/ walk[r].mode = "run" /\ walk' = [walk EXCEPT ![r] = BodyReturns(@, TRUE)]
       \/ walk' = [walk EXCEPT ![r].pc = "body", ![r].cut = TRUE]
    /\ UNCHANGED <<lists, left>>

\* Classification and execution; what raises becomes the response.
Body(r) ==
    /\ Stands(r, "body")
    /\ walk' = [walk EXCEPT ![r] = BodyReturns(@, TRUE)]
    /\ UNCHANGED <<lists, left>>

-----------------------------------------------------------------------------
(* The lists change at any await, by a member or by another task.          *)

Unknown(x) == x \notin ToSet(known)

Walking == {"stages", "stage", "dispatch", "hooks", "hook", "body"}

\* What every edit does: gone has left a list, the others keep their places.
Edit(gone) ==
    /\ edits < MaxEdits /\ edits' = edits + 1
    /\ walk' = [r \in Runs |->
          [walk[r] EXCEPT !.lost = IF walk[r].pc \in Walking THEN @ \cup gone ELSE @]]
    /\ UNCHANGED left

RegisterHook(h) ==
    /\ Unknown(h) /\ Edit({})
    /\ hooks' = Append(hooks, h) /\ known' = Append(known, h)
    /\ UNCHANGED <<stages, chain>>

UnregisterHook(h) ==
    /\ h \in ToSet(hooks) /\ Edit({h})
    /\ hooks' = RemoveFirst(hooks, h)
    /\ UNCHANGED <<stages, chain, known>>

\* add_stage is insert_stage at the end.
InsertStage(k, s) ==
    /\ s \notin KB /\ Unknown(s) /\ Edit({})
    /\ stages' = InsertAt(stages, k, s) /\ known' = Append(known, s)
    /\ UNCHANGED <<hooks, chain>>

RemoveStage(s) ==
    /\ s \in ToSet(stages) /\ Edit({s})
    /\ stages' = RemoveFirst(stages, s)
    /\ UNCHANGED <<hooks, chain, known>>

\* Mutant: the new stage of the knowledge base goes to the end.
SetKnowledgeBaseLast(s) ==
    /\ s \in KB /\ Unknown(s) /\ Edit({})
    /\ stages' = Append(RemoveFirstMatch(stages, LAMBDA x : x \in KB), s)
    /\ known' = Append(known, s)
    /\ UNCHANGED <<hooks, chain>>

\* The stage of the knowledge base before is removed, the new one goes first.
SetKnowledgeBase(s) ==
    /\ s \in KB /\ Unknown(s) /\ Edit({})
    /\ stages' = InsertAt(RemoveFirstMatch(stages, LAMBDA x : x \in KB), 1, s)
    /\ known' = Append(known, s)
    /\ UNCHANGED <<hooks, chain>>

Use(m) ==
    /\ Unknown(m) /\ Edit({})
    /\ chain' = Append(chain, m) /\ known' = Append(known, m)
    /\ UNCHANGED <<hooks, stages>>

Edits ==
    \/ \E h \in Hooks : RegisterHook(h) \/ UnregisterHook(h)
    \/ \E s \in Stages :
          \/ \E k \in 1..(Len(stages) + 1) : InsertStage(k, s)
          \/ RemoveStage(s) \/ SetKnowledgeBase(s)
    \/ \E m \in Middlewares : Use(m)

Advance(r) ==
    \/ Enters(r) \/ NextHandler(r) \/ Middleware(r) \/ Open(r)
    \/ NextStage(r) \/ StageRaises(r) \/ StageStops(r) \/ StageContinues(r)
    \/ StagesDone(r) \/ NextHook(r) \/ HookDone(r) \/ HookStops(r) \/ Body(r)

ShellNext == Edits \/ \E r \in Runs : Advance(r)

ShellSpec == ShellInit /\ [][ShellNext]_shellVars

-----------------------------------------------------------------------------
ShellTypeOK ==
    /\ hooks \in Seq(Hooks) /\ stages \in Seq(Stages) /\ chain \in Seq(Middlewares)
    /\ walk \in [Runs -> Walk]
    /\ left \subseteq Hooks /\ known \in Seq(Member) /\ edits \in 0..MaxEdits
    /\ \A r \in Runs :
         /\ walk[r].pc = "done" <=> walk[r].outcome # "open"
         /\ walk[r].outcome = "response" => walk[r].response

Place(x) == CHOOSE i \in DOMAIN known : known[i] = x
Ascending(q) == \A i, j \in DOMAIN q : i < j => Place(q[i]) < Place(q[j])

\* However the list of hooks changes under a dispatch, no hook is handled twice
\* or out of the order of registration; and unless one stopped the dispatch or
\* was unregistered meanwhile, every hook registered at its start was asked,
\* also when others raised.
HooksRun ==
    \A r \in Runs :
        /\ walk[r].pc \in {"hooks", "hook", "body"} => Ascending(walk[r].asked)
        /\ walk[r].pc = "body" /\ ~walk[r].cut /\ walk[r].lost = {} =>
             ToSet(walk[r].began) \subseteq ToSet(walk[r].asked)

\* A request that passes the pipeline has run each stage that stood there when
\* it entered, although stages were inserted and the knowledge base was
\* replaced meanwhile: only a removal can make it miss one.
StagesRun ==
    \A r \in Runs :
        walk[r].pc = "dispatch" /\ walk[r].mode = "run" /\ ~walk[r].cut /\ walk[r].lost = {} =>
            ToSet(walk[r].began) \ KB \subseteq ToSet(walk[r].asked)

\* A walk of a live list passes over no member that stood there at its start.
WalksComplete == HooksRun /\ StagesRun

\* Whatever a middleware does with next_handler, and whatever is added to the
\* chain meanwhile, a request enters each middleware once at most, in the order
\* of the chain, and its body at most once more than next_handler was called
\* again; and who gets a response gets that of the body, or one that a
\* middleware has made instead.
MiddlewareNests ==
    \A r \in Runs :
        /\ walk[r].entered = SubSeq(chain, 1, walk[r].index)
        /\ walk[r].bodies <= walk[r].again + 1
        /\ walk[r].outcome = "response" => walk[r].bodies > 0 \/ walk[r].made

=============================================================================
