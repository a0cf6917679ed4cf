# A TLA+ model of SwiftAgentX

SwiftAgentX is an asyncio library that runs LLM agents: a request is classified,
answered directly, by a scenario (a fixed chain of tools), by a plan the model
generates and the agent caches, or by a ReAct loop, and its turn goes into a
layered memory. This directory models the parts of it that keep state between
requests or let several tasks work on one object. Paths below are relative to
the package, `src/src/swiftagentx/`; `PROJECT.json` maps each definition to its lines.

Under FastAPI, and for a program that calls the agent itself, there is one thread: a
task runs without interruption from one `await` to the next one that really
suspends. Every action is such a section of code, and every interleaving is one of
the event loop. An exception, a timeout and a cancellation enter where an `await`
is. The Flask adapter runs each request in a thread of a pool with a loop of its own
(`web/flask_adapter.py:68`); what this does to operations that have no `await` and no
lock, and to the stream between two loops, is the subject of `AgentServices`.

## 1. The system

| Component (files) | State | Operations | What is hard | What makes it correct |
|---|---|---|---|---|
| **Layered memory** `core/memory_layers.py`, `core/memory_hooks.py` | per session: `l2`, `l3`, `l4_summary`, `total_turns_added`, `_loaded`, `_lock`; the backend's snapshot | `get`, `load`, `add_turn`, `flush_l2_to_l3`, `summarize`, `clear`, `TopicChangeHook` | `summarize` releases the lock while the model answers; background summaries; saves outside the lock; restart | an acknowledged turn is in some layer until `clear`; order; window bound |
| **SSE stream** `stream/adapter.py` | bounded queue, `is_finished`, `is_closed`, `events_dropped` | `send_event`, `finish`, `event_generator`, `…_with_timeout` | full queue, slow or vanished client, finish from another task | no gap, no task blocked, generator ends |
| **MCP client** `providers/mcp/client.py` | `_next_id`, `_pending`, dispatcher task, transport, `_started`, `_initialized` | `start`, `close`, `list_tools`, `call_tool` | late, reordered or lost answers; death of the server; restart; cancellation | an answer reaches the request it was given to; every call returns |
| **Planner** `core/planner.py`, `Agent._try_planned_execution` | `PlanStore._plans`: anchors, counts, approved, promoted | match, add, record success / failure, approve, promote, evict | concurrent requests change the store between two awaits | one plan per shape; bound; promoted plans stay; tools run once |
| **Scenario engine and tool executor** `tools/scenario.py`, `tools/executor.py`, `tools/registry.py` | `collected`, `failed_steps`, `last_output`; registered tools | `run`, `_run_steps`, `execute_single`, `execute_parallel` | parallel groups, retries, timeouts, tools unregistered meanwhile | steps of a group isolated; `fail_fast`; failures reported; the run ends |
| **Agent request** `core/agent.py`, `tools/termination.py` | the request's progress; session, caches, stream shared with others | `run`, `run_stream`, ReAct loop | errors after the answer was streamed, overlapping requests of a session | recorded once, shown once, verdict unique, stream finished |
| **Hooks** `core/hooks.py` | list of hooks per event | `register`, `unregister`, `dispatch`, `ShellHook` | the list changes while it is walked; hooks that raise; a command that hangs | each hook in its turn, once; a stop is obeyed |
| **Middleware** `middleware/base.py` | the chain; an index per request | `add`, `execute` | chain cut short, continued again, extended meanwhile | each once, in order |
| **Pipeline, knowledge-base stage** `core/pipeline.py`, `knowledge_base/stage.py` | list of stages | `add_stage`, `insert_stage`, `remove_stage`, `execute`, `set_knowledge_base` | the list changes while it is walked | no stage is passed over |
| **Cache** `core/cache.py` | three levels and scenario entries with time to live | `query`, `set_level_1` … `3`, scenario cache, `clear_*`, `_evict_oldest` | look first and delete then, in several threads; a clock that is set back | bounded, the oldest goes first, nothing expired is served, nothing fresh is lost |
| **Knowledge base** `knowledge_base/` | documents, index, `_dirty` | `add_documents`, `delete_document`, `search` with its lazy rebuild | a rebuild in one thread, a change in another | a search finds what is there, and nothing else |
| Router, retrieval `core/router.py`, `core/retrieval.py` | embedding cache | classify, rank | cache cleared while a batch is ranked | every ranked document has a vector |
| **Subagents** `core/subagent.py` | `_roles`, `_handlers`; the children of a dispatch | `register_role`, `unregister_role`, `dispatch` | one of several fails, hangs, or is cancelled; roles change | a failure stays with its request; no child outlives the dispatch |
| **Workspace, context offload** `core/workspace.py`, `core/context_offload.py`, `tools/workspace_tool.py` | files per session, on disk or in memory | `open`, `write`, `remove`, `cleanup`, `_context_safe`, `workspace_read` | sections that clean up while others write or read, offsets | what was stored is found; the chunks are the text |
| **MCP servers of an agent, tool registry** `core/agent.py`, `providers/mcp/tool.py`, `tools/registry.py` | `_mcp_clients`; tools and their categories | `register_mcp_server`, `shutdown_mcp_servers`, `register`, `unregister` | a registration fails half-way, or runs beside a shutdown | no server is left running; tools and categories agree |
| **Flask endpoint** `web/flask_adapter.py` | a queue between two event loops | `sse_endpoint` | the queue belongs to the loop that waits first | events in order, and the end |
| Parameters, sessions, storage, skills | dictionaries | get, set | none (no awaits between read and write) | – |
| Prompts and layout; model clients, providers; admin; FastAPI routes; config and schema models; event builder, log context | text, HTTP wrappers, one-field setters, data | – | I/O | – |

How they interact. `Agent.run` (or `run_stream` in a task of its own, feeding an
SSE stream whose generator the web adapter reads) gets the session's memory from
`LayeredMemoryStore`, passes the middlewares, the stages of the pipeline and the hooks, asks the cache and the router, and then
uses the scenario engine, the planner (whose chains run in the scenario engine) or
the ReAct loop (whose actions run in the tool executor, over MCP for tools of a
server). Results too large for a prompt go into the session's workspace, from which
`workspace_read` brings them back. At the end it appends the turn and caches the answer. The admin service
approves and promotes plans from other tasks. Sharing is by reference to objects
of the one agent: session memory, caches, plan store, tool registry, MCP clients.

`PROJECT.json` lists all components with their status and every hazard at its
line.

## 2. The modules

| Module | Models | Instances / proofs |
|---|---|---|
| `LayeredMemory` | one session's memory, its backend and the topic hook, any number of callers and background tasks | `MCLayeredMemory`, `LayeredMemoryProofs` |
| `SSEStream` | one stream: senders, queue, generator, client | `stream*.cfg`, `SSEStreamProofs` |
| `RemoteCalls` | abstract: what a caller of a remote tool may rely on | – |
| `MCPClient` | the client, its owner, callers, dispatcher and the server outside; implements `RemoteCalls` | `mcp.cfg`, `MCPClientProofs` |
| `PlanStore` | the plan store under concurrent requests and a developer | `MCPlanStore`, `PlanStoreProofs` |
| `ScenarioEngine` | one chain on the tool executor | `MCScenarioEngine`, `ScenarioEngineProofs` |
| `AgentRequest` | requests of `Agent.run` and `run_stream` over memory, caches and streams | `MCAgentRequest`, `AgentRequestProofs` |
| `RequestShell` | the three lists a request walks (middlewares, stages, hooks) while they change | `MCRequestShell`, `AgentServicesProofs` |
| `Workspace` | workspaces of sessions, offloaded results and reading them back | `MCWorkspace`, `WorkspaceProofs` |
| `SharedAgent` | who calls the parts below: threads or tasks, one web adapter | – |
| `CacheManager`, `KnowledgeBase`, `AgentServers`, `SubAgents`, `FlaskStream` | one part of the agent each, on top of `SharedAgent` | – |
| `AgentServices` | their composition and its properties | `MCAgentServices`, `AgentServicesProofs` |

### LayeredMemory

`mem` holds the four fields a `MemorySnapshot` carries, `stored` the backend's
snapshot, `lock` the task that keeps `_lock` *across* an await (only `load` under
the lock does; the other critical sections are one step), and `task[t].pc` the
await a task is at. `add_turn`, `flush_l2_to_l3` and `summarize` are one action
`Begin` that takes the lock, loads when needed (`BackendRead`, `LoadFinish`; the
answer travels between the two) and runs `AddSection`, `FlushSection` or
`SummarizeSection`. `summarize` is split where the code releases the lock:
`SummarizeSection` reads the summary and L3, `SummarizeFinish` applies the answer.
`SaveFinish` stores the snapshot taken when `save` was called; a save that raises, is
cancelled or is cut off by a crash may have stored it all the same (`MaybeStored`).

Abstractions: a turn is its number in order of arrival; a summary is the set of
turns it accounts for (a new summary accounts for exactly what the summarizer was
given); the backend is the asynchronous protocol, of which `InMemoryBackend` is
the special case that answers at once; one instance per session (`drop` of the
store) and the rendering for the prompt are left out.

### SSEStream

`log` is everything ever put in the queue and `taken` how much the generator took,
so the queue is the rest and delivery order is visible. `wait_for(put)` runs the
put in a task of its own, so `SendEvent` (the checks) and `Put` / `Wait` /
`Timeout` are separate steps. `Timeout` may win although a slot is free: both can
happen in one iteration of the loop. `timed` chooses the generator with a
deadline. A heartbeat changes no state.

### MCPClient and RemoteCalls

A request is its serial number; `ident` is the id on the wire. `_request` is
`Call`/`Spawned`, which register the future and write, or wait for the lock of the
write (`Acquire`, in FIFO order; the transport over HTTP has none); `Sent` or `SendFail`
when `send` comes back; then `Resume`, where the answer turns out a result or an error,
`Timeout` or `Cancel`. Nothing in `_request` asks for the phase of the client, so
callers call in each of them; before the first transport the send raises
(`"unstarted"`). The server may have a request as soon as it is written (`queue`), while
the sender is still in `drain()` or in its POST, and keeps it when the send raises or is
cancelled. The dispatcher is `Dispatch`, `EndOfFile`, `IdleTimeout`.
`Reply`, `Noise` and `ServerDies` are the server, which is outside of the program: it
answers what it received in any order, before or after the send has returned, more than
once, or never; it sends answers with no id or an unknown one, and what the dispatcher
cannot read. What it does not do is to answer one request under the id of another:
the protocol gives the client nothing to tell such an answer by. `transport` is chosen
initially: with `stdio` a new process has new pipes, with `sse` the inbox
outlives a restart, so late answers of an earlier connection arrive.
`RemoteCalls` says what callers get: one outcome, success only after this very call was
executed and answered, and a call that failed may have been executed or be executed
later. How often a server executes what it got once is its own affair. The
refinement maps `outcome` to `told`.

### PlanStore

A template stands for a chain with its argument templates, a shape for what
`_plan_shape` compares (tools and parameter names), an anchor for the query it
came from. `Begin` is `match`; slots, planning, the run of the chain and the
synthesis are awaits, so the store may change under each. A plan without slots
does not suspend between match and run; the model lets it, which only adds
behaviours. The model that generates plans always finds the chain that serves the
query: what goes wrong does so in the store.

### ScenarioEngine

One run: `Select` evaluates the conditions of an entry and renders the inputs,
`Executor(i)` is `execute_single` for a step (validation, attempts, backoff),
`Gather` waits for all, `JoinNext` joins one output, `NextEntry` decides. A value
is the step that produced it and whether a condition on it holds. `Change`
registers and unregisters tools meanwhile. The `step_callback`, awaited before a group and
after each step, changes nothing here but may raise, which ends the run without a result
(`CallbackRaises`).

### AgentRequest

One action per stretch between awaits from `_validate_input` to `REQUEST_END`. The
components are seen from outside: a turn is appended in one step, a stream is what
was sent before `finish()`, a chain or a plan succeeds or fails. The
session is the user's, and the scenario cache has the key `order_status_$user_id`.
`Raises` may strike at every await that can raise; loading the memory (before the
`try`) and `add_turn` have their own failures. The router gives a
verdict and `Level` is the path the agent makes of it, which depends on whether the
slots of the scenario are filled. An action of the ReAct loop is its
deduplication key. Middlewares, single stages and single hooks are in `RequestShell`.

### RequestShell

The body of a request is one step here; what stands around it is taken apart. The
three lists belong to the agent, and no code copies one before it walks it: `i` is
the iterator of the `for` loop in hand and `index` the counter that the closures of
`MiddlewareChain.execute` share, while `frames` is the stack of middlewares that
await `next_handler`. `NextStage` and `NextHook` take the next member of the list *as
it is now*; `RegisterHook`, `UnregisterHook`, `InsertStage`, `RemoveStage`, `SetKnowledgeBase`
and `Use` happen at any await. A middleware calls `next_handler`, returns or raises,
before and after its await, and may catch what was raised inside (`raising`). What it
returns is the context it has, one it has put a response of its own into (`made`), with
or without having called `next_handler`, or another one without a response (`Contexts`). A hook
ends in one of the ways its kind allows (`HookEnds`). `known` holds every member in its
order of registration: that order is what a walk is compared with. A member that
is registered again counts as another one. `ShellAssumption` says that a hook, a stage and
a middleware are never the same object, as they are instances of different classes.

### Workspace

No operation of the two backends suspends, so each is one step, and so is `_context_safe`
(`Offload`: the text, a reference to its file, or its head when the file cannot be
written) and one call of `workspace_read` (`ReadChunk`). What interleaves is code of
the application inside `async with agent.workspace(...)`: `Enter` opens, `Exit` may clean
up, and in between `handle` keeps what was opened. `stores` are the directories and the
dictionaries ever made; `current` is the dictionary a session has now, which after a
clean-up is not the one a section may still hold. `dir` is what `_safe_dir` makes of an id:
sessions may have one directory, and the ids `""` and `"."` have the root, whose clean-up
takes the directories in it too (`Under`). The check of a path compares strings, so a section may
also write and remove in a directory whose name begins with the name of its own
(`Reach`, `Reachable`). `kept` is history: for each session, what was stored where its
next `open` looks for it (`Owners`), by itself or through such a path. `reader` is a model that follows the offsets in the
hints; any result may be offloaded or file removed between its calls.

Abstractions: a text is the sequence of its characters; the random names of offloaded
files are distinct; a clean-up deletes each directory wholly or not at all (`rmtree` ignores
errors); a path into a directory that no session has changes nothing here, and one that fails
the check is rejected before any state is read, as is an offset that is not a number.

### SharedAgent and AgentServices

`AgentServices` composes five parts that every request of an agent shares. They have
no state in common, so `part` says which of them a behaviour is about; the others
stay in their initial state, and one run checks them all. `adapter` is how the agent
is served. The operations of the cache and of the knowledge base have no `await`
(`NeverSuspend`): in one event loop they run one after the other (`MayCall`), in the
threads of the Flask adapter their steps interleave. A step is what the interpreter
does not interrupt for another thread: one operation on a dictionary, one pass of a
loop, `list(...)` or `sorted(...)` of what is already in hand.

* **CacheManager.** A dictionary is the sequence of its entries in the order of
  insertion. `Query` and the other entry points begin an operation, and `look[t]`
  holds what it has seen: an entry found (`Look`) is judged by its age
  (`Serve`, `Stale`) and its key deleted in a later step (`Drop`), the keys of a level
  above its limit are listed, sorted and deleted one by one (`ListKeys`,
  `EvictOldest`, `Drop`), and `clear_expired` lists a level, deletes, and takes the
  empty dictionary of a user away (`Unlist`), from which another thread may be
  evicting. At level 2 the key is hashed between the look at the users and the access to
  the dictionary (`LookUser`, `FindUser`; `PutUser`, `StoreUser`), which may be gone by then. The users are listed once (`ListUsers`), before the first of them is scanned.
  `Fail` is the `KeyError` or `RuntimeError` of a thread whose key, user or level
  changed meanwhile. `born` is the time that really passed, which the clock of
  the machine (`made`, `clock`) need not show.
* **KnowledgeBase.** A dictionary is a sequence with holes and an iterator a position,
  as in the interpreter; it raises when the number of keys is another one. `search` is
  the exact phase (`Exact`), the rebuild (`ClearIndex`, `TakeNext`, `IndexOne`,
  `LoopEnds`, `Rebuilt`) and the scoring loop (`Score`). A score is positive iff query
  and text have a word in common (`Near`) whose weight the index knows (`words`). Each
  document of a list that is added is a step (`GoesOn`), and all are marked at the end
  (`MarkDirty`). Left out: CPython compacts a dictionary when it grows after
  deletions, and an iterator that was open then may skip an entry or raise "dictionary
  keys changed"; here a hole stays where it is.
* **AgentServers.** One client per registration: `Connect`, the handshake, `tools/list`,
  then `Listed` enters the tools and tracks the client in one step, or one of the
  failures. `_mcp_clients` is a sequence of clients with those of a server together;
  `sweep[t]` is a shutdown that iterates over its very lists, so it meets a client that
  is appended before its end. `left` records why a running server is nobody's.
* **SubAgents.** One fan-out under `gather(return_exceptions=False)`: a child looks its
  role up when it starts, its handler returns, raises, returns nothing or is
  cancelled from within, or the timeout cancels it and it stops in its own time
  (`HandlerStops`). `Gathers` is what the first exception does to the dispatch.
* **FlaskStream.** The run and the generator of one streamed request, each in its own
  thread, with the queue between them. `owner` is the loop the queue is bound to: the
  one that waits first. The other one gets a `RuntimeError` when it has to wait
  (`SendRefused`, `Broken`). To find the queue full or empty is one step and to begin to
  wait the next, so the other thread may act in between.

## 3. The runs

All bounds are constants of the configurations and are guards of the model
(`MaxTurns`, `MaxCrashes`, `MaxEvents`, `MaxFinish`, `MaxRequests`, `MaxStarts`,
`MaxNoise`, `MaxChanges`, `MaxClears`, `MaxAgain`, `MaxEdits`, `MaxResults`, `MaxEnters`,
`MaxWrites`, `MaxCalls`, `MaxTime`, `MaxBack`, `MaxDescriptors`); they limit how long the environment acts,
never what the code does. `MaxNoise` bounds what nobody asked an MCP server for: repeated
answers, unknown ids, junk, and hours without a message.

| Run | What it shows | Bounds, and why they are enough |
|---|---|---|
| `memory_one_caller` | `AckedKept`, `ClearedStays`, `SavedOnReturn`: with one request at a time and foreground summaries an acknowledged turn survives every fault, cancellation and restart, and a cleared one never returns | 4 turns with L2 = L3 = 1 and a summary every 3: roll-over, cap and cadence all fire, twice the cap is reached; one restart and every fault kind |
| `memory_concurrent` | `TypeOK`, `Chronological`, `WindowBounded` (of L2), `CallsReturn` under two requests, a background summary, topic changes, clears and failures | sizes 1 make each turn roll and fold; 2 turns suffice for two callers, a fold and a flush to race. The theorems cover all sizes |
| `memory_overlap` | violation of `NothingForgotten` (line 191: "Concurrent `add_turn` and `summarize` calls are safe") | two background summaries, three turns: the shortest overlap |
| `stream` | `NoGap`, `OneTimeoutEach`, `EndComplete`, `NobodyWaits` (`SendReturns` and `GeneratorEnds`) | two senders with three events on a queue of two: full queue, both waiting, `finish` twice and from either |
| `stream_lost_end` | violation of `StreamEnds`: `finish` on a full queue loses the sentinel for a client that is only slow | one sender |
| `mcp` | `FuturesSound` (`MatchedAnswer` and `InFlightFailed`), `SetOnce`, `RequestsReturn`, `ImplementsRemoteCalls` | three requests over two starts: a handshake, a call, and an answer or a call that outlives the restart; owner and caller run concurrently; one answer repeated, unknown or unreadable. `RequestsReturn` leaves out who stands behind a write without a timeout (`Blocked`) |
| `plan_store` | `StoreSound` (`OnePlanPerShape`, `StoreBounded`, `PromotedStays`), `FastPathSound` (`RunsItsShape`, `NoSecondRun`) | two requests in flight and five in all, two shapes on a store of one (two chains have the same shape): dedupe, eviction and a store full of promoted plans; the scores match one query to the anchor of a chain that does not serve it |
| `scenario` | `ChainSound` (`GroupIsolated`, `FailFastStops`, `JoinedInOrder`), `AnsweredOnce`, `RunEnds` | a chain of two groups and a serial chain of four steps: each condition kind, same-variable extraction, retries 0, 1 and 2, both failure policies |
| `request` | `ActedOnce` (`ClientTold`, of requests that are not rejected, and `NoActionTwice`), `RecordedOnce` (`GreetedFirst`, `OneTurn`), `CacheOwn` | two overlapping requests of one or two users, either mode, one query (so that one may hit what the other stored), three iterations over two actions |
| `shell` | `WalksComplete` (`HooksRun` and `StagesRun`), `MiddlewareNests` | one request: requests share only the lists, and the three edits change these in any way another request's members could; two middlewares, three hooks (one of each kind), four stages of which two are knowledge bases; one repeated call of `next_handler` |
| `workspace` | `Kept`, `ReadBack` | two sections over two sessions on disk or in memory; on disk each has the root, or one of two directories of which one name begins the other (so sessions that share one, lie in one another, or reach each other in one direction occur, and isolated ones); results of 1 and 5 characters with a threshold of 1 and chunks of 2 (a last chunk that is short, and starts before, in and behind the text); two results and a file, so that one may stand where the other is expected |
| `services` | `CacheSound` (`LosesOnlyOld`, `ServedFresh`, `LevelsBounded`), `SearchSound` (`FoundReal`, `SearchComplete`, `SearchAnswers`), `ServersKept` (`NoLeak`, `RegistrySound`), `DispatchContained`, `FlaskDelivered` (`ReceivedInOrder`, `EndIsLast`, `BreaksOnlyFull`) | two threads. Cache: three operations (two fill a level above its limit of one while a third looks, clears or evicts), a time to live of less than a tick and a clock that goes once forward and once back, a cleanup at every second access. Knowledge base: four operations on two documents of two texts (a rebuild, a change beside it, and a search before and after; a list of documents counts one each). Servers: four registrations, shutdowns or registry calls, three clients of two servers with up to two descriptors. Sub-agents: two requests and three other calls. Stream: five events on a queue of two |

Symmetry is used only for requests, users and tasks, in runs without liveness.
`CHECK_DEADLOCK FALSE` stands where a run is over when its inputs are used up: every
stream, request or plan request done, the environment's bounds reached. The two
memory runs that pass keep the deadlock check: `get` or `clear` is always possible
unless a task is stuck.

## 4. Fairness

* `LayeredMemory!Fairness`: each await of a backend or a model comes back, with an
  answer or an exception, and `asyncio.Lock` wakes its waiters in FIFO order, so a
  task that waits for the lock is not overtaken for ever (strong fairness: the lock
  is taken and given back meanwhile).
* `SSEStream!Fairness`: the loop runs every ready task, `put_timeout` is finite, and
  a client that has not left asks for the next message. Nothing makes a task send or
  finish.
* `MCPClient!Fairness`: a send without a transport raises at once, the write lock wakes
  its waiters, and `wait_for` has a timeout. Nothing is asked of the server, of the
  dispatcher, or of a send that has written: `drain()` (`client.py:98`) and the POST
  (`timeout=None`, line 144) may hang, and `call_timeout` begins only after them.
  `RequestsReturn` therefore says that every request returns unless it stands behind such a
  write (`Blocked`), by the timeouts alone.
* `ScenarioEngine!Fairness`: every wait of the executor has a timeout (the tool's
  own), backoffs are finite, and asyncio runs what is ready. The `step_callback` belongs to
  the caller and has no timeout (`tools/scenario.py:250`): that it comes back or raises is an
  assumption.
* `PlanStore`, `AgentRequest`, `RequestShell`, `Workspace` and `AgentServices` state no liveness: their
  waits are those of the modules above, and how long a ReAct loop lasts is bounded by a safety property
  (`TypeOK` and `NoActionTwice` bound the iterations and executed actions).

## 5. The proofs

`LayeredMemoryProofs` proves, for all callers, background tasks, sizes, cadences,
faults and bounds (assumptions: `MemoryAssumption` and `SnapshotAssumption`, which
only say what kind of value each constant is):

* `TypeCorrect`: `Spec => []TypeOK`. `TypeInv` adds where a task may be: an `add`
  past its section knows its turn, only the topic hook waits for a verdict. Without
  it the return of `add_turn` could acknowledge turn 0.
* `AlwaysChronological`, `AlwaysWindowBounded`. The window or the order of the
  instance alone is not inductive: a load replaces the instance by the backend's
  snapshot, and the backend's snapshot is replaced by one in flight. `OrderInv` says
  that *every* snapshot is well formed (in order, bounded, no turn newer than the
  last one made). Lemma `DataFlow` reduces a step to where each snapshot came from,
  and `RollWellFormed`-style lemmas show that each operation keeps well-formedness; a
  filter (`Without`) keeps order by a lemma on ranks.

and, for a single caller with foreground summaries (`Callers = {c}`,
`Background = FALSE`):

* `OneCallerKeeps`, `OneCallerClears`, `OneCallerSaves` (`AckedKept`,
  `ClearedStays`, `SavedOnReturn`). `KeepInv` says what the caller's await knows: the
  snapshot being saved *is* the instance, the reply in flight *is* the backend's, the
  summarizer was given exactly what L3 and L4 hold; and the backend has all promised
  turns. The assumption is needed: with two summaries at once the property is false
  (`memory_overlap`), and with two callers two saves may be stored in the other order.

`SSEStreamProofs` proves, for all senders, buffer sizes and bounds
(`StreamAssumption`): `StreamTypeCorrect`, `AlwaysNoGap`, `AlwaysOneTimeout` and
`AlwaysEndComplete`. `NoGap` speaks of the log only, and a step appends an event
whose predecessor must be there already. `SenderInv` supplies it by tying each
sender's place in `send_event` to the log: one that is in the middle of it has all
its events but the one at hand in the log and has not timed out before (a timeout
closes the stream, and a closed stream is never entered). `EndInv` puts the
finishing task's events before *every* sentinel; for a second `finish()` it needs
that a stream finished and not closed has a sentinel already.

`MCPClientProofs` (`ClientAssumption`: the bounds are numbers, the owner is no caller):
`ClientTypeCorrect`, `AlwaysFuturesSound`, the action property `FuturesSetOnce`, and
`ClientImplementsRemoteCalls`, the refinement, action by action: a step of the reader, a
caller, a timeout or `close` is a step of `RemoteCalls` or a stutter. What an answer
carries is the id, so `IdentInv` says that `ident[r] = r` for all requests made so far;
"one outcome, after an execution" needs `ServerInv` (the server has only what the client
made), `TaskInv` (two tasks never have
one request, and theirs is open) and `AnswerInv` (an answer in the inbox, the first or a
repeated one, carries the id of the request it was given to, which was executed, or the id
of none). `WaitingInv`, a future that waits is in `_pending`, is what makes the
end of the dispatcher reach all of them.

`PlanStoreProofs` (`PlanAssumption`; there is a query and an intent, as for every agent):
`PlansTypeCorrect`, `AlwaysStoreSound`, `AlwaysNoSecondRun` and `AlwaysFastPathSound`, for
any scores. A score counts words, so a match may lead a query to the anchor of another
wish, and one more match from there to a third: `Leads` is all that matches lead to, and
`RunsItsShape` says that nothing else leads the fast path astray. `StoreBounded` is not inductive: that the store may exceed its bound by one
plan only needs that an eviction finds the one plan that is not promoted. `Store` adds
that an id carries the shape of its plan and that this shape serves every anchor or what
matches lead to from it (`ServesBy`), since a
request comes back after an await with nothing but an id, and the plan may be another
one by then. The best match and the plan to evict are the least of a set of numbers;
that one exists is `LeastNat`, from the well-foundedness of the naturals, because the
induction theorems themselves are out of the provers' reach.

`ScenarioEngineProofs` (`ScenarioAssumption`): `ChainTypeCorrect`, `AlwaysChainSound`, and
the action property `CalledUntilAnswered`. A step is isolated from its group because the
bag holds only outputs of earlier entries until the group is joined (`BagInv`); the
results are in order because the engine joins a prefix of the group (`GroupInv`); and
`HistoryInv` ties the four histories of the model, what was called, answered, succeeded
and failed, to the place of the engine, so that "nothing starts after a failure" follows
from `FailFastInv`: the failed steps are those of one group, which is the last.

`WorkspaceProofs` (`WorkspaceAssumption`: finitely many sessions and users, `"none"` is no
session, a path reaches its own directory and from the root each): `WorkspaceTypeCorrect`, `AlwaysKept`, `AlwaysReadBack`. `Kept` needs that no two
sessions have one dictionary (`SpaceInv`), and that a section holds the files of its own
session only (`HandleInv`). `ReadBack` compares what the model put together with the
text: `ReaderInv` says that it is at any time the part from where it began to where it
stands, also when it began behind the end, and `OffloadInv` that the file of a
result holds this result wherever it is. That the dictionaries are bounded is
`CountInv`, a count of what may still make one: a session without, a section that may
clean up, a section to come.

`AgentRequestProofs` (`RequestAssumption`: bounds are numbers, the two markers are neither an
answer nor an action): `RequestsTypeCorrect`, `AlwaysActedOnce`, `AlwaysRecordedOnce` and
`AlwaysCacheOwn`, for any number of overlapping requests, with an exception at each
await. The invariant is local to a request but for what it shares, and lemma `StepInv`
reduces every step to that: the step changes one request, adds at most a turn of its
own to the session and caches only what was said there. `StreamOK` says what the stream
was sent at every place of the request: until the answer goes out at most its first
chunks, afterwards no error, because it is finished by then and drops what comes.
`ReactOK` counts executions against iterations, with the action at hand apart: it is
executed before it is remembered. `TurnOK` says that no turn is there before `Record`
and exactly one after it; `GreetOK` that who passed `SESSION_START`, or found turns
already, is in a greeted session, which two overlapping first requests both are.

`AgentServicesProofs` (the assumptions of the five parts and `ShellAssumption`) holds what is
proved of `AgentServices` and of `RequestShell`. A step of `AgentServices` moves one part
(lemma `OnlyOnePart`), so each proof is about one:

* `AlwaysDispatchContained`. `DispatchInv` says of each child (`KidOK`) which stop it may have
  been told at which place, and of the fan-out what its state says of all children;
  `GathersKeeps` shows that the first exception, whichever the code sees first, keeps it.
* `AlwaysFlaskDelivered`, for every size of the queue and any number of events. `FlaskInv`
  puts what was received and what is queued in one sequence `Sent`: the events in order
  (`InPlace`), how far the run has come (`UpToDate`) and, when the queue never was full, all
  of it (`Whole`). `Bound` says that who waits has the queue for its loop, so that never both wait.
* `AlwaysServersKept`, for any number of servers, clients and overlapping shutdowns. `LifeOK`
  says at which place of its registration a client may be open; `SweepOK` that what was
  tracked when a shutdown was called, and is open still, is left for it to close; `OwnerOK` that an MCP tool is one of a client of its server; `RegistryOK` is the
  agreement of tools and categories, which `register` and `unregister` keep each.
* `AlwaysSearchSound`, for any documents and threads. `SearchInv` has a part for what is found
  (`ViewOK`: it was there, and what the search counts on is there still), for each phase
  (`ExactOK`, `ScoreOK`: a document that counts is found or ahead of the iterator; `BuildOK`:
  a rebuild nobody overlaps has indexed what its iterator has passed), and for the index
  (`IndexOK`: when it is not dirty nor suspect it has every document but those whose writer has
  still to mark it). A thread that moves while another rebuilds makes the index suspect
  (`Overlaps`), so only a rebuild on its own has to be argued about.
* `AlwaysCacheSound`, an action property, for any users, entries and times. In `CacheInv`,
  `LookOK` says what a thread in the middle of an operation may rely on as long as nobody
  else has changed the dictionary it is in: what it has in hand is in the dictionary
  (`InHand`), what it evicts is older than what it evicts next and than what stays
  (`OldFirst`), what it deletes otherwise is expired (`AllExpired`). `raced` is exactly the
  case in which nothing of this is left. `TimesOK` ties the time of an entry to the one
  that really passed. `LoopOK` says that in one event loop a thread is alone and its
  scan meets no user that is gone, from which follows that no operation raises.
  `CountOK` bounds a level by its limit, the operations that raised and the threads
  that have still to evict from it. Lemma `StepKeeps` reduces every step to what it does
  to the thread that takes it and to the dictionaries it changes; `OldestIs` and
  `WithoutKeyIs` say what eviction and deletion do to a sequence.
* `ServicesTypeCorrect`: the types follow from the invariants of the parts, and `Bounds` has
  the rest (the calls, the roles, the places of the queue).
* `ShellTypeCorrect`, `AlwaysWalksComplete`, `AlwaysMiddlewareNests`, for any lists and any
  changes of them. A walk is safe because of what is *ahead* of its iterator: `HookWalk` and
  `StageWalk` say that each member that stood in the list at the start, and was not removed, was
  asked or stands behind the iterator, and `HookWalk` also that what is ahead was registered
  later than all that was asked. An insertion in front of the iterator may repeat a stage, but
  cannot hide one. `ChainWalk` ties what was entered to the index that all closures of
  `execute` share, and `FramesOK` the place of a request to the middlewares that await.

The proofs changed the models where they could not be reasoned about. A `CASE` whose arms
overlap has no fixed value, and two had such arms that TLC reads in order (`Gathers`, `Back`):
they are disjoint now. The cache had three flaws that the bounds of its run hid: the cut of
`Oldest` was undefined where more entries were to go than were listed, `clear_expired`
looked for the users one by one where the code lists them once, after level 1, and raises
when one of them is gone, and a clearing did not mark the threads it races with. In `NoLeak` a disjunct was implied by another, which the proof did
not use, and is gone. No theorem needed a weaker property than the run checks.

Only model-checked:

* liveness (`CallsReturn`, `NobodyWaits`, `RequestsReturn`, `RunEnds`), which needs
  fairness and `ENABLED`, both out of the prover's reach; TLC checks it on the bounds of
  section 3;
* the properties that a run refutes;
* what a recursive definition computes for every input: `Without` of the layered memory
  is therefore defined without recursion and compared with `SelectSeq` on small
  sequences by an assumption TLC evaluates (`MCLayeredMemory`).

## 6. Divergences

Two have a violating run and are listed under "findings". Others met while
modelling, without a run of their own:

* `core/memory_layers.py:222`: two `get`s that load at once hydrate the instance
  twice; the second (line 225) overwrites what was added in between. The model has
  it (`LoadFinish`), which is why the one-caller setting matters.
* `core/memory_layers.py:20` gives a cap for L3, which the code exceeds while the
  summarizer fails.
* Two concurrent `add_turn`s save outside the lock, and the older snapshot may be
  stored last; the backend lacks the newer turn until the next save.
* `providers/mcp/client.py:195`: `async with` does not close a client whose handshake
  failed in `__aenter__` (line 233), so its process stays.
* `core/agent.py:1472`: with manual reuse (`auto_reuse` off) regenerated runs that fail
  are not recorded, so a plan may be promoted with failures behind it, which
  `models/config.py:73` says it is not.
* `tools/scenario.py:304`: a chain that `fail_fast` broke off is a success if the last
  step of its group succeeded, and `core/agent.py:1408` caches the answer.
* `core/agent.py:870`: `run_stream` returns on a rejected input without finishing the
  stream (`Reject` in `AgentRequest`; `ClientTold` excludes it).
* `providers/mcp/client.py:264`: after 3600 seconds without a message the dispatcher
  stops for good although the server is alive (`IdleTimeout`), and reports "transport
  died"; each later call waits its whole timeout.
* `core/hooks.py:443`: "Fire every hook subscribed" (line 436), but a hook that
  unregisters itself makes the walk skip the one after it. `HooksRun` says what holds:
  without a removal none is missed.
* `core/agent.py:253`: `set_knowledge_base` or `insert_stage` in front of a request's
  place makes it run a stage a second time; `StagesRun` says that none is missed.
* `core/agent.py:630`: a middleware that returns without calling `next_handler`
  "short-circuits the request" (`middleware/base.py:69`). That is so when it writes
  `context["response"]` itself, as `tests/test_default_session.py:935` does; otherwise
  `run()` raises `KeyError`, also after a middleware caught an exception of the body
  or returned another dictionary.
* `core/agent.py:749` and `:935`: hooks may "short-circuit the request, abort it"
  (`core/hooks.py:27`), and a `short_circuit` serves "to bypass the rest of the request"
  (the repository's README, line 599). But no caller of `dispatch` looks at `abort`, and
  the streamed request does not look at `short_circuit` either: the walk ends
  (`HookStops`) and the request goes on.
* `core/workspace.py:197`: `setdefault` gives a new dictionary after a clean-up, and a
  section that opened the workspace before goes on writing into the old one, which
  nobody sees (`Owners` in `Workspace`). On disk the same file is found.
* `core/workspace.py:123`: workspaces are "isolated by session_id" (line 8), but ids
  that differ in separators only have one directory, and one may clean
  up the files of the other; the ids `""` and `"."` have the root, and their clean-up
  takes the files of all sessions. The check at line 136 compares strings, so session `s1`
  reaches the files of `s10`. `Kept` holds for what was stored and not
  changed or cleaned up in any of these ways. Line 19, "workspace cleaned up", is not the default.
* `providers/mcp/client.py:98` and `:144`: neither `drain()` nor the POST has a timeout,
  and `call_timeout` (line 60) starts only when they have returned (line 302), so it does not bound a
  call whose server does not read; over `stdio` each later call waits for its write lock too
  (`Blocked`). The tool executor's own timeout then cancels a tool call; the handshake and
  `tools/list` have none around them.
* `core/hooks.py:368`: a `ShellHook` that timed out leaves its process running (`left`).
* `core/planner.py:237`: two chains that differ in constant arguments only have one
  shape, and the anchor of one is added to the plan of the other. "The fast path can
  only make requests faster, never wronger" (line 19) therefore does not hold for the
  arguments, and for the shape only as far as matches are right: one false match runs
  the chain of another wish and adds the query to its anchors (`RunsItsShape`, `Leads`).
* `web/flask_adapter.py:87`: the generator has another loop than the run. A put wakes
  nobody in it, so what is sent while it waits arrives with its next heartbeat, up to
  five seconds later; a streamed answer of more chunks than the queue has places
  (100) in this time finds the queue full, and as the generator waited first, the
  put raises. The run then fails, its error event is refused as well, `finish()` is not
  reached (`core/agent.py:1021`) and the generator goes on with heartbeats
  (`SendRefused`). When the run waited first, the generator breaks at the next
  empty queue (`Broken`). A request that is rejected, or whose session cannot be loaded,
  never ends its stream here: line 73 only logs, where FastAPI sends an error.
* Under Flask the sessions are shared by threads too, with `asyncio.Lock`s that belong
  to the first loop that waited (`core/memory_layers.py:548`). This is not modelled.
* `core/cache.py:142` under Flask: two threads that evict from one level find the same
  oldest entries; one raises, and its level stays too large (`failed` in
  `LevelsBounded`). A thread that found an expired entry may delete a fresh one of the
  same key (`raced`), and one that stores an entry of a user whose empty dictionary
  `clear_expired` takes away loses it (line 222).
* `knowledge_base/memory.py:159` under Flask: a document added while the index is
  rebuilt may be lost to searches until the next change: the end of the rebuild marks
  clean what `add_documents` had marked dirty (`suspect`).
* `core/agent.py:123` makes the cache without the configured
  `max_cache_entries_per_level`, so a limit set there has no effect.
* `core/agent.py:472`, "Close every MCP client the agent has spun up": not one whose
  handshake failed (line 314), whose `tools/list` was cancelled or held a tool without
  a name, or that was registered under a new name while the shutdown awaited, whose
  last line clears it away (`left`).
* `core/subagent.py:167`, "never propagates an exception": a handler that returns `None`
  (line 213) or is cancelled from within makes `dispatch` raise, and the other children
  go on unobserved (`Gathers`).
* `core/subagent.py:136`: a role registered again without a handler keeps the handler of
  the one it overwrites.
* `core/retrieval.py:157` empties the cache of vectors when a batch would overflow it,
  those of the documents of the same call included; line 138 then misses them and the
  ranking falls back to the lexical one although the embedder works. Not modelled.
* `core/router.py:208` lower-cases the answer of the model before it looks for the
  scenario (line 226), so a scenario whose id has a capital letter is never chosen.
  Not modelled: a verdict is a scenario or none.
* The final answer a model gives in a ReAct loop is caught by the termination check
  before `_extract_final_answer`, so it costs another model call.

## 7. What is left: the plan

In this order; a new module composes with or replaces part of an existing one where it
can, so that the number of runs and properties stays readable.

1. The store of memories under Flask: locks that belong to a loop, `drop` and two
   instances of one session.
2. The embedding cache of the router, cleared while a batch is ranked.
3. `AgentRequest` on top of `CacheManager` instead of its two maps.

Not to be modelled: prompts and layouts, HTTP wrappers of model providers, data
models and configuration, event constructors, log context (text, I/O or data without
behaviour); BM25 and embedding ranks (floating point); examples and benchmarks.
