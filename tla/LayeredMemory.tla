---------------------------- MODULE LayeredMemory ----------------------------
(***************************************************************************)
(* One session's four-layer memory (core/memory_layers.py), its backend    *)
(* and the TopicChangeHook (core/memory_hooks.py) that drives it.          *)
(*                                                                         *)
(* The code is asyncio: a task runs without interruption from one await to *)
(* the next, so every action below is the code between two awaits that     *)
(* really suspend (a call of the backend, a call of a model, the wait for  *)
(* the instance's lock).                                                   *)
(*                                                                         *)
(* A turn is its number, counted from 1 in the order the turns are         *)
(* appended: two DialogTurns are equal only if every field is, the         *)
(* timestamp included.  The summary is the set of the turns it accounts    *)
(* for: a new summary accounts for what the summarizer was given, the      *)
(* previous summary and the turns to fold.                                 *)
(***************************************************************************)
EXTENDS Integers, Sequences, FiniteSets

CONSTANTS Callers,        \* tasks that call the memory (one per request in flight)
          Bg,             \* slots for background summarize tasks
          L2Size,         \* LayeredMemoryConfig.l2_size
          L3MaxSize,      \* LayeredMemoryConfig.l3_max_size
          Every,          \* LayeredMemoryConfig.summarize_every_n_turns
          Background,     \* LayeredMemoryConfig.summarize_in_background
          HasSummarizer,  \* whether a summarizer was injected
          Calls,          \* the calls the application makes: see CallKinds
          Faults,         \* what may fail: see FaultKinds
          MaxTurns,       \* bound on the turns ever added
          MaxCrashes,     \* bound on the restarts of the process
          Nobody,         \* the lock's owner when it is free
          NoSnapshot      \* what the backend returns for an unknown session

CallKinds == {"get", "add", "flush", "summarize", "topic", "clear"}
FaultKinds == {"summarizer", "save", "load", "cancel"}
Turn == 1..MaxTurns

\* The fields of a LayeredMemory that a MemorySnapshot carries.
Memory == [l2 : Seq(Turn), l3 : Seq(Turn), l4 : SUBSET Turn, total : Nat]

ASSUME MemoryAssumption ==
    /\ Callers \cap Bg = {}
    /\ Nobody \notin Callers \cup Bg
    /\ L2Size \in Nat /\ L3MaxSize \in Nat /\ Every \in Nat
    /\ Background \in BOOLEAN /\ HasSummarizer \in BOOLEAN
    /\ Calls \subseteq CallKinds /\ Faults \subseteq FaultKinds
    /\ MaxTurns \in Nat /\ MaxCrashes \in Nat

ASSUME SnapshotAssumption == NoSnapshot \notin Memory

VARIABLES
    mem,      \* l2, l3, l4_summary and total_turns_added of the instance
    loaded,   \* _loaded
    lock,     \* _lock: the task that holds it across an await, or Nobody
    stored,   \* the session's snapshot in the backend
    task,     \* what each task is doing
    made,     \* history: how many turns were ever appended
    acked,    \* history: the turns whose add_turn returned
    wiped,    \* history: the newest turn when clear last reset the fields
    gone,     \* history: the newest turn a clear that returned has wiped
    crashes   \* how often the process was restarted

vars == <<mem, loaded, lock, stored, task, made, acked, wiped, gone, crashes>>
history == <<made, acked, wiped, gone, crashes>>

Tasks == Callers \cup Bg

-----------------------------------------------------------------------------
(* The data.                                                               *)

Elements(s) == {s[i] : i \in DOMAIN s}
Empty == [l2 |-> <<>>, l3 |-> <<>>, l4 |-> {}, total |-> 0]

\* The turns a memory still knows about, verbatim or through its summary.
Accounted(m) == Elements(m.l2) \cup Elements(m.l3) \cup m.l4

\* s without its elements in S, in order.  (SelectSeq, written without the
\* recursion the provers cannot unfold: the n-th element kept is the one
\* with n kept positions up to its own.)
Without(s, S) ==
    LET keep == {i \in DOMAIN s : s[i] \notin S}
        rank == [i \in keep |-> Cardinality({j \in keep : j <= i})]
    IN  [n \in 1..Cardinality(keep) |-> s[CHOOSE i \in keep : rank[i] = n]]

\* Mutant: L2 may hold one turn more than l2_size.
RollLate(m) ==
    LET over == Len(m.l2) - L2Size
    IN  IF over <= 1 THEN m
        ELSE [m EXCEPT !.l3 = @ \o SubSeq(m.l2, 1, over),
                       !.l2 = SubSeq(m.l2, over + 1, Len(m.l2))]

\* The oldest turns of an L2 that is too long roll into L3.
Roll(m) ==
    LET over == Len(m.l2) - L2Size
    IN  IF over <= 0 THEN m
        ELSE [m EXCEPT !.l3 = @ \o SubSeq(m.l2, 1, over),
                       !.l2 = SubSeq(m.l2, over + 1, Len(m.l2))]

AppendTurn(m, x) ==
    Roll([m EXCEPT !.l2 = Append(@, x), !.total = @ + 1])

CadenceFires(m) == Every > 0 /\ m.total > 0 /\ m.total % Every = 0

NeedsSummarize(m) == Len(m.l3) > L3MaxSize \/ CadenceFires(m)

\* Mutant: the flushed turns go in front of L3.
FlushL2InFront(m) == [m EXCEPT !.l3 = m.l2 \o @, !.l2 = <<>>]

FlushL2(m) == [m EXCEPT !.l3 = @ \o m.l2, !.l2 = <<>>]

\* Mutant: the new summary is built from the folded turns alone.
FoldIntoFresh(m, prev, fold) ==
    [m EXCEPT !.l3 = Without(@, fold), !.l4 = fold]

\* The summarizer's answer to (prev, fold) replaces the summary; the folded
\* turns that are still in L3 leave it.
FoldInto(m, prev, fold) ==
    [m EXCEPT !.l3 = Without(@, fold), !.l4 = prev \cup fold]

Hydrate(m, snap) == IF snap = NoSnapshot THEN m ELSE snap

-----------------------------------------------------------------------------
(* The tasks.  pc is the await a task is at:                               *)
(*   judge   TopicChangeHook.evaluate waits for the LIGHT model            *)
(*   load    backend.load was called     reply   its answer is on the way  *)
(*   resume  waits for the lock to enter summarize()                       *)
(*   llm     waits for the summarizer                                      *)
(*   save    backend.save was called with snap                             *)
(* next is what follows the save: the caller's return, the save of         *)
(* add_turn itself, or the summarize() of TopicChangeHook.handle.          *)

Ops == CallKinds \cup {"none"}
Pcs == {"idle", "judge", "load", "reply", "resume", "llm", "save"}
Task == [pc : Pcs, op : Ops, next : {"return", "save", "summarize"},
         prev : SUBSET Turn, fold : SUBSET Turn,
         snap : Memory \cup {NoSnapshot}, turn : 0..MaxTurns]

Idle == [pc |-> "idle", op |-> "none", next |-> "return",
         prev |-> {}, fold |-> {}, snap |-> NoSnapshot, turn |-> 0]

Busy(t) == task[t].pc # "idle"
Saving(r, m, next) == [r EXCEPT !.pc = "save", !.next = next, !.snap = m]

Init ==
    /\ mem = Empty
    /\ loaded = FALSE
    /\ lock = Nobody
    /\ stored = NoSnapshot
    /\ task = [t \in Tasks |-> Idle]
    /\ made = 0 /\ acked = {} /\ wiped = 0 /\ gone = 0 /\ crashes = 0

\* The operation of t comes to its end without an exception.
Return(t) ==
    /\ task' = [task EXCEPT ![t] = Idle]
    /\ acked' = IF task[t].op = "add" THEN acked \cup {task[t].turn} ELSE acked
    /\ gone' = IF task[t].op = "clear" /\ task[t].turn > gone
               THEN task[t].turn ELSE gone

\* Mutant: the lock is not released on the error path.
AbortKeepsLock(t) ==
    /\ task' = [task EXCEPT ![t] = Idle]
    /\ UNCHANGED lock

\* The operation of t ends with an exception or a cancellation; `async with`
\* releases the lock.
Abort(t) ==
    /\ task' = [task EXCEPT ![t] = Idle]
    /\ lock' = IF lock = t THEN Nobody ELSE lock

-----------------------------------------------------------------------------
(* The sections the code runs under the lock, on the fields m that load()  *)
(* left.                                                                   *)

\* add_turn; in the background mode the summary gets a task of its own.
AddSection(t, r, m) ==
    LET x  == made + 1
        m1 == AppendTurn(m, x)
        r1 == [r EXCEPT !.turn = x]
    IN  /\ made < MaxTurns /\ made' = x
        /\ mem' = m1
        /\ IF ~NeedsSummarize(m1)
           THEN task' = [task EXCEPT ![t] = Saving(r1, m1, "return")]
           ELSE IF Background
           THEN \E b \in Bg :
                   /\ ~Busy(b)
                   /\ task' = [task EXCEPT
                        ![t] = Saving(r1, m1, "return"),
                        ![b] = [Idle EXCEPT !.pc = "resume", !.op = "summarize"]]
           ELSE task' = [task EXCEPT ![t] = [r1 EXCEPT !.pc = "resume"]]
        /\ UNCHANGED <<acked, wiped, gone>>

\* flush_l2_to_l3, called alone or as the first half of TopicChangeHook.handle.
FlushSection(t, r, m) ==
    /\ IF m.l2 = <<>>
       THEN /\ mem' = m
            /\ task' = [task EXCEPT ![t] =
                 IF r.op = "topic" THEN [r EXCEPT !.pc = "resume"] ELSE Idle]
       ELSE /\ mem' = FlushL2(m)
            /\ task' = [task EXCEPT ![t] =
                 Saving(r, FlushL2(m), IF r.op = "topic" THEN "summarize" ELSE "return")]
    /\ UNCHANGED <<made, acked, wiped, gone>>

\* The first section of summarize.  A foreground add_turn still saves when
\* there is nothing to fold.
SummarizeSection(t, r, m) ==
    /\ mem' = m
    /\ task' = [task EXCEPT ![t] =
         IF m.l3 # <<>> /\ HasSummarizer
         THEN [r EXCEPT !.pc = "llm", !.prev = m.l4, !.fold = Elements(m.l3)]
         ELSE IF r.op = "add" THEN Saving(r, m, "return") ELSE Idle]
    /\ UNCHANGED <<made, acked, wiped, gone>>

Section(t, r, m) ==
    \/ r.op = "add"               /\ AddSection(t, r, m)
    \/ r.op \in {"flush", "topic"} /\ FlushSection(t, r, m)
    \/ r.op = "summarize"         /\ SummarizeSection(t, r, m)

-----------------------------------------------------------------------------
(* The calls.                                                              *)

\* LayeredMemoryStore.get: load() outside the instance's lock.
Get(c) ==
    /\ ~Busy(c)
    /\ ~loaded
    /\ task' = [task EXCEPT ![c] = [Idle EXCEPT !.pc = "load", !.op = "get"]]
    /\ UNCHANGED <<mem, loaded, lock, stored, history>>

\* The bound on the turns counts the add_turns that still load.
Room ==
    LET waiting == {t \in Callers : task[t].op = "add" /\ task[t].turn = 0}
    IN  made + Cardinality(waiting) < MaxTurns

\* add_turn, flush_l2_to_l3 or summarize takes the lock; an instance that is
\* not loaded keeps it while the backend answers.
Begin(c, op) ==
    LET r == [Idle EXCEPT !.op = op]
    IN  /\ ~Busy(c)
        /\ lock = Nobody
        /\ op = "add" => Room
        /\ \/ /\ loaded
              /\ Section(c, r, mem)
              /\ UNCHANGED lock
           \/ /\ ~loaded
              /\ lock' = c
              /\ task' = [task EXCEPT ![c] = [r EXCEPT !.pc = "load"]]
              /\ UNCHANGED <<mem, made, acked, wiped, gone>>
        /\ UNCHANGED <<loaded, stored, crashes>>

\* Mutant: clear returns without saving the empty snapshot.
ClearUnsaved(c) ==
    /\ ~Busy(c)
    /\ lock = Nobody
    /\ mem' = Empty
    /\ wiped' = made /\ gone' = made
    /\ UNCHANGED <<loaded, lock, stored, task, made, acked, crashes>>

\* clear: it neither loads nor sets _loaded.
Clear(c) ==
    /\ ~Busy(c)
    /\ lock = Nobody
    /\ mem' = Empty
    /\ wiped' = made
    /\ task' = [task EXCEPT ![c] =
         Saving([Idle EXCEPT !.op = "clear", !.turn = made], Empty, "return")]
    /\ UNCHANGED <<loaded, lock, stored, made, acked, gone, crashes>>

\* TopicChangeHook.evaluate: the hook gets the memory from store.get, asks
\* only when there was a turn before.
Evaluate(c) ==
    /\ ~Busy(c)
    /\ loaded
    /\ Accounted(mem) # {}
    /\ task' = [task EXCEPT ![c] = [Idle EXCEPT !.pc = "judge", !.op = "topic"]]
    /\ UNCHANGED <<mem, loaded, lock, stored, history>>

\* "new_topic": handle() starts with flush_l2_to_l3.
NewTopic(c) ==
    /\ task[c].pc = "judge"
    /\ lock = Nobody
    /\ FlushSection(c, task[c], mem)
    /\ UNCHANGED <<loaded, lock, stored, crashes>>

\* "continuing", or the model raised.
SameTopic(c) ==
    /\ task[c].pc = "judge"
    /\ task' = [task EXCEPT ![c] = Idle]
    /\ UNCHANGED <<mem, loaded, lock, stored, history>>

-----------------------------------------------------------------------------
(* The awaits come back.                                                   *)

\* The backend reads the snapshot; the answer travels.
BackendRead(t) ==
    /\ task[t].pc = "load"
    /\ task' = [task EXCEPT ![t] = [@ EXCEPT !.pc = "reply", !.snap = stored]]
    /\ UNCHANGED <<mem, loaded, lock, stored, history>>

\* load() overwrites the fields with the answer, whatever happened to them
\* meanwhile, and the operation goes on in the same step.
LoadFinish(t) ==
    /\ task[t].pc = "reply"
    /\ loaded' = TRUE
    /\ LET m == Hydrate(mem, task[t].snap)
           r == [Idle EXCEPT !.op = task[t].op]
       IN  \/ /\ r.op = "get"
              /\ mem' = m
              /\ task' = [task EXCEPT ![t] = Idle]
              /\ UNCHANGED <<lock, made, acked, wiped, gone>>
           \/ /\ r.op # "get"
              /\ lock' = Nobody
              /\ Section(t, r, m)
    /\ UNCHANGED <<stored, crashes>>

LoadFail(t) ==
    /\ "load" \in Faults
    /\ task[t].pc \in {"load", "reply"}
    /\ Abort(t)
    /\ UNCHANGED <<mem, loaded, stored, history>>

\* Mutant: the lock is kept while the summarizer is asked.
ResumeKeepsLock(t) ==
    /\ task[t].pc = "resume"
    /\ lock = Nobody /\ lock' = t
    /\ SummarizeSection(t, task[t], mem)
    /\ UNCHANGED <<loaded, stored, crashes>>

\* summarize() inside add_turn, inside handle(), or in its own task.
Resume(t) ==
    /\ task[t].pc = "resume"
    /\ lock = Nobody
    /\ SummarizeSection(t, task[t], mem)
    /\ UNCHANGED <<loaded, lock, stored, crashes>>

\* The second section of summarize, and its save.
SummarizeFinish(t) ==
    LET m == FoldInto(mem, task[t].prev, task[t].fold)
    IN  /\ task[t].pc = "llm"
        /\ lock = Nobody
        /\ mem' = m
        /\ task' = [task EXCEPT ![t] =
             Saving(@, m, IF @.op = "add" THEN "save" ELSE "return")]
        /\ UNCHANGED <<loaded, lock, stored, history>>

\* Mutant: add_turn returns at the failed summary, before its save.
SummarizeFailReturns(t) ==
    /\ "summarizer" \in Faults
    /\ task[t].pc = "llm"
    /\ Return(t)
    /\ UNCHANGED <<mem, loaded, lock, stored, made, wiped, crashes>>

\* The summarizer raised: the old summary and L3 stay.
SummarizeFail(t) ==
    /\ "summarizer" \in Faults
    /\ task[t].pc = "llm"
    /\ task' = [task EXCEPT ![t] =
         IF @.op = "add" THEN Saving(@, mem, "return") ELSE Idle]
    /\ UNCHANGED <<mem, loaded, lock, stored, history>>

\* The backend stores the snapshot the task took when it called save.
SaveFinish(t) ==
    /\ task[t].pc = "save"
    /\ stored' = task[t].snap
    /\ \/ /\ task[t].next = "return"
          /\ Return(t)
       \/ /\ task[t].next = "save"
          /\ task' = [task EXCEPT ![t] = Saving(@, mem, "return")]
          /\ UNCHANGED <<acked, gone>>
       \/ /\ task[t].next = "summarize"
          /\ task' = [task EXCEPT ![t] = [@ EXCEPT !.pc = "resume"]]
          /\ UNCHANGED <<acked, gone>>
    /\ UNCHANGED <<mem, loaded, lock, made, wiped, crashes>>

\* A save that did not come back may be in the backend all the same.
MaybeStored(t) ==
    \/ UNCHANGED stored
    \/ task[t].pc = "save" /\ stored' = task[t].snap

SaveFail(t) ==
    /\ "save" \in Faults
    /\ task[t].pc = "save"
    /\ MaybeStored(t)
    /\ Abort(t)
    /\ UNCHANGED <<mem, loaded, history>>

\* The caller's request is cancelled at an await (a timeout around it).
Cancel(c) ==
    /\ "cancel" \in Faults
    /\ Busy(c)
    /\ MaybeStored(c)
    /\ Abort(c)
    /\ UNCHANGED <<mem, loaded, history>>

\* The process stops, maybe in a save; a new one starts with an empty instance.
Crash ==
    /\ crashes < MaxCrashes
    /\ crashes' = crashes + 1
    /\ mem' = Empty
    /\ loaded' = FALSE
    /\ lock' = Nobody
    /\ task' = [t \in Tasks |-> Idle]
    /\ UNCHANGED stored \/ \E t \in Tasks : MaybeStored(t)
    /\ UNCHANGED <<made, acked, wiped, gone>>

-----------------------------------------------------------------------------
Call(c) ==
    \/ "get" \in Calls /\ Get(c)
    \/ \E op \in Calls \cap {"add", "flush", "summarize"} : Begin(c, op)
    \/ "clear" \in Calls /\ Clear(c)
    \/ "topic" \in Calls /\ Evaluate(c)

\* A task that was waiting goes on.
Answer(t) ==
    \/ BackendRead(t) \/ LoadFinish(t)
    \/ Resume(t) \/ SummarizeFinish(t)
    \/ SaveFinish(t)

Failure(t) == LoadFail(t) \/ SummarizeFail(t) \/ SaveFail(t)

Next ==
    \/ \E c \in Callers : Call(c) \/ NewTopic(c) \/ SameTopic(c) \/ Cancel(c)
    \/ \E t \in Tasks : Answer(t) \/ Failure(t)
    \/ Crash

Spec == Init /\ [][Next]_vars

\* Every await comes back, and asyncio.Lock is granted in FIFO order, so a task
\* is not overtaken for ever by others that take the lock.
Fairness ==
    /\ \A t \in Tasks : SF_vars(Answer(t))
    /\ \A c \in Callers : WF_vars(NewTopic(c) \/ SameTopic(c))

FairSpec == Spec /\ Fairness

-----------------------------------------------------------------------------
(* Properties.                                                             *)

TypeOK ==
    /\ mem \in Memory
    /\ loaded \in BOOLEAN
    /\ lock \in Callers \cup {Nobody}
    /\ stored \in Memory \cup {NoSnapshot}
    /\ task \in [Tasks -> Task]
    /\ made \in 0..MaxTurns
    /\ acked \subseteq Turn
    /\ wiped \in 0..MaxTurns /\ gone \in 0..MaxTurns
    /\ crashes \in Nat

\* The turns add_turn has promised to keep.
Promised == {x \in acked : x > wiped}

\* A turn whose add_turn returned is in L2, in L3 or in the summary of the
\* instance, after any failure, cancellation or restart, until clear.
AckedKept == loaded => Promised \subseteq Accounted(mem)

\* What a clear that returned has wiped never comes back, from a late answer
\* of the summarizer or of the backend or from the stored snapshot.
ClearedStays == loaded => \A x \in Accounted(mem) : x > gone

\* When add_turn returns, the backend holds the turn, and goes on holding it.
SavedOnReturn ==
    \A x \in Promised : stored # NoSnapshot /\ x \in Accounted(stored)

\* Concurrent add_turn and summarize calls are safe: no turn that was recorded
\* is missing from all the layers (a restart may lose the ones never saved).
NothingForgotten ==
    crashes = 0 => \A x \in 1..made : x > wiped => x \in Accounted(mem)

Increasing(s) == \A i, j \in DOMAIN s : i < j => s[i] < s[j]

\* The prompt shows the verbatim turns oldest first, L3 before L2, none twice.
ChronologicalIn(m) == Increasing(m.l3 \o m.l2)

\* Whatever the callers, the faults and the order of the answers, the
\* instance, the backend's snapshot and every snapshot in flight are in order.
Chronological ==
    /\ ChronologicalIn(mem)
    /\ stored # NoSnapshot => ChronologicalIn(stored)
    /\ \A t \in Tasks : task[t].snap # NoSnapshot => ChronologicalIn(task[t].snap)

\* The L2 window shown to the model never exceeds l2_size turns, in the
\* instance or in a snapshot a new process could hydrate from.
WindowBounded ==
    /\ Len(mem.l2) <= L2Size
    /\ stored # NoSnapshot => Len(stored.l2) <= L2Size

\* Every call comes back, with its result or an exception, and no failure
\* leaves the lock taken: a call that waits for it gets its turn.
CallsReturn ==
    /\ \A c \in Callers : Busy(c) ~> ~Busy(c)
    /\ lock # Nobody ~> lock = Nobody

=============================================================================
