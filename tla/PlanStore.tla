------------------------------ MODULE PlanStore ------------------------------
(***************************************************************************)
(* The planner's fast path (core/planner.py, Agent._try_planned_execution):*)
(* concurrent requests match, generate, run, record and promote plans in   *)
(* the PlanStore, while a developer approves and promotes them.            *)
(*                                                                         *)
(* A template is a tool chain with its argument templates; the store tells *)
(* chains apart by their shape only (tools and parameter names).  An       *)
(* anchor is named by the query it was made from.                          *)
(***************************************************************************)
EXTENDS Integers, Sequences, FiniteSets

CONSTANTS Tasks,         \* the requests in flight
          Query,         \* what users ask
          Template,      \* the tool chains the model may generate
          Shape,         \* _plan_shape: the part of a template that is compared
          Intent,        \* the names the model may give a plan
          ShapeOf,       \* [Template -> Shape]
          TemplateOf,    \* [Query -> Template]: the chain that serves a query
          Score,         \* [Query -> [Query -> Nat]]: how far a query covers an anchor
          Threshold,     \* match_threshold
          MaxSize,       \* max_size
          PromoteAfter,  \* promote_after
          EvictAfter,    \* evict_after_failures
          AutoReuse,     \* auto_reuse
          AutoPromote,   \* plan_auto_promote
          AnchorCap,     \* the cap of _add_anchor
          MaxRequests    \* bound on the requests ever made

ASSUME PlanAssumption ==
    /\ Query # {} /\ Intent # {}
    /\ ShapeOf \in [Template -> Shape]
    /\ TemplateOf \in [Query -> Template]
    /\ Score \in [Query -> [Query -> Nat]]
    /\ Threshold \in Nat \ {0}
    /\ MaxSize \in Nat \ {0} /\ PromoteAfter \in Nat \ {0} /\ EvictAfter \in Nat \ {0}
    /\ AutoReuse \in BOOLEAN /\ AutoPromote \in BOOLEAN
    /\ AnchorCap \in Nat /\ MaxRequests \in Nat

VARIABLES
    plans,      \* _plans, in insertion order
    scenarios,  \* the ids registered as scenarios by promotion
    task,       \* what each request is doing
    requests    \* history: the requests made

vars == <<plans, scenarios, task, requests>>

PlanId == Intent \X Shape

Plan == [id : PlanId, template : Template, anchors : Seq(Query),
         successes : Nat, failures : Nat, approved : BOOLEAN, promoted : BOOLEAN]

\* reused: the run is of a plan that match() returned; ran: the whole chain ran.
Task == [pc : {"idle", "slots", "planning", "running", "answering", "react"},
         query : Query, id : PlanId, template : Template,
         reused : BOOLEAN, ran : BOOLEAN]

-----------------------------------------------------------------------------
(* The store.                                                              *)

Positions(id) == {i \in DOMAIN plans : plans[i].id = id}

\* Mutant: plans are told apart by intent and shape.
SameShapeAndIntent(id) == Positions(id)

\* Mutant: a new phrasing is anchored to the oldest plan.
AnyShape(id) == DOMAIN plans

\* _find_same_shape
SameShape(id) == {i \in DOMAIN plans : ShapeOf[plans[i].template] = id[2]}

\* _add_anchor
WithAnchor(p, q) ==
    IF (\E i \in DOMAIN p.anchors : p.anchors[i] = q) \/ Len(p.anchors) >= AnchorCap
    THEN p
    ELSE [p EXCEPT !.anchors = Append(@, q)]

Best(S) == CHOOSE i \in S : \A j \in S : i <= j

Drop(s, i) == SubSeq(s, 1, i - 1) \o SubSeq(s, i + 1, Len(s))

\* Mutant: the store is full one plan too late.
EvictWhenOver(s) ==
    LET free == {i \in DOMAIN s : ~s[i].promoted}
    IN  IF Len(s) <= MaxSize \/ free = {} THEN s ELSE Drop(s, Best(free))

\* Mutant: the oldest plan goes, promoted or not.
EvictOldest(s) == IF Len(s) < MaxSize THEN s ELSE Tail(s)

\* _evict_if_full: the oldest plan that is not promoted.
EvictIfFull(s) ==
    LET free == {i \in DOMAIN s : ~s[i].promoted}
    IN  IF Len(s) < MaxSize \/ free = {} THEN s ELSE Drop(s, Best(free))

\* add: a plan of a cached shape only adds its phrasing to the cached one.
Added(id, t, q) ==
    IF SameShape(id) # {}
    THEN LET i == Best(SameShape(id)) IN [plans EXCEPT ![i] = WithAnchor(@, q)]
    ELSE Append(EvictIfFull(plans),
                WithAnchor([id |-> id, template |-> t, anchors |-> <<>>,
                            successes |-> 0, failures |-> 0,
                            approved |-> AutoReuse, promoted |-> FALSE], q))

\* match: the first of the best scores among the approved, unpromoted plans.
ScoreOf(q, p) ==
    LET scores == {Score[q][p.anchors[i]] : i \in DOMAIN p.anchors} \cup {0}
    IN  CHOOSE x \in scores : \A y \in scores : y <= x

Candidates(q) ==
    {i \in DOMAIN plans : /\ plans[i].approved /\ ~plans[i].promoted
                          /\ ScoreOf(q, plans[i]) >= Threshold}

Matched(q) ==
    Best({i \in Candidates(q) :
            \A j \in Candidates(q) : ScoreOf(q, plans[j]) <= ScoreOf(q, plans[i])})

\* record_success, on the store s that add() left, and promote_plan when the
\* rule track says so.
Promotable(p) == ~p.promoted /\ p.failures = 0 /\ p.successes >= PromoteAfter
Promoted(p) == [p EXCEPT !.approved = TRUE, !.promoted = TRUE]

AfterSuccess(s, i, anchored) ==
    LET p == [anchored EXCEPT !.successes = @ + 1]
        up == Promotable(p) /\ AutoPromote
    IN  /\ plans' = [s EXCEPT ![i] = IF up THEN Promoted(p) ELSE p]
        /\ scenarios' = IF up THEN scenarios \cup {p.id} ELSE scenarios

\* Mutant: a promoted plan is evicted like any other.
FailureEvictsAll(id) ==
    IF Positions(id) = {} THEN UNCHANGED plans
    ELSE LET i == Best(Positions(id))
             p == [plans[i] EXCEPT !.failures = @ + 1]
         IN  plans' = IF p.failures >= EvictAfter THEN Drop(plans, i)
                      ELSE [plans EXCEPT ![i] = p]

\* Mutant: a failure takes a success back.
FailureTakesSuccess(id) ==
    IF Positions(id) = {} THEN UNCHANGED plans
    ELSE LET i == Best(Positions(id))
             p == [plans[i] EXCEPT !.failures = @ + 1, !.successes = @ - 1]
         IN  plans' = IF ~p.promoted /\ p.failures >= EvictAfter THEN Drop(plans, i)
                      ELSE [plans EXCEPT ![i] = p]

\* record_failure
RecordFailure(id) ==
    IF Positions(id) = {} THEN UNCHANGED plans
    ELSE LET i == Best(Positions(id))
             p == [plans[i] EXCEPT !.failures = @ + 1]
         IN  plans' = IF ~p.promoted /\ p.failures >= EvictAfter THEN Drop(plans, i)
                      ELSE [plans EXCEPT ![i] = p]

-----------------------------------------------------------------------------
(* A request, from await to await.                                         *)

Idle == CHOOSE k \in Task : k.pc = "idle" /\ ~k.reused /\ ~k.ran

Init ==
    /\ plans = <<>> /\ scenarios = {}
    /\ task = [t \in Tasks |-> Idle]
    /\ requests = 0

\* match() found a plan: its slots are asked for; else a plan is.
Begin(t, q) ==
    /\ task[t].pc = "idle"
    /\ requests < MaxRequests /\ requests' = requests + 1
    /\ task' = [task EXCEPT ![t] =
         IF Candidates(q) # {}
         THEN LET p == plans[Matched(q)]
              IN  [@ EXCEPT !.pc = "slots", !.query = q, !.id = p.id,
                            !.template = p.template, !.reused = TRUE, !.ran = FALSE]
         ELSE [@ EXCEPT !.pc = "planning", !.query = q, !.reused = FALSE, !.ran = FALSE]]
    /\ UNCHANGED <<plans, scenarios>>

Return(t) == task' = [task EXCEPT ![t] = Idle]
Move(t, pc) == task' = [task EXCEPT ![t].pc = pc]

SlotsFound(t) ==
    /\ task[t].pc = "slots"
    /\ Move(t, "running")
    /\ UNCHANGED <<plans, scenarios, requests>>

\* A slot is missing, or the model raised: fresh planning.
SlotsMissing(t) ==
    /\ task[t].pc = "slots"
    /\ task' = [task EXCEPT ![t].pc = "planning", ![t].reused = FALSE]
    /\ UNCHANGED <<plans, scenarios, requests>>

\* The model's plan parses and is valid: it runs at once.
Planned(t, intent) ==
    /\ task[t].pc = "planning"
    /\ LET template == TemplateOf[task[t].query]
       IN  task' = [task EXCEPT ![t] =
             [@ EXCEPT !.pc = "running", !.template = template,
                       !.id = <<intent, ShapeOf[template]>>]]
    /\ UNCHANGED <<plans, scenarios, requests>>

\* Not plannable, not valid, or the model raised.
NotPlanned(t) ==
    /\ task[t].pc = "planning"
    /\ Move(t, "react")
    /\ UNCHANGED <<plans, scenarios, requests>>

\* A step of the chain failed: only a reused plan is blamed.
ChainFails(t) ==
    /\ task[t].pc = "running"
    /\ Move(t, "react")
    /\ IF task[t].reused THEN RecordFailure(task[t].id) ELSE UNCHANGED plans
    /\ UNCHANGED <<scenarios, requests>>

ChainRuns(t) ==
    /\ task[t].pc = "running"
    /\ task' = [task EXCEPT ![t].pc = "answering", ![t].ran = TRUE]
    /\ UNCHANGED <<plans, scenarios, requests>>

\* Mutant: a failed answer falls back to ReAct.
AnsweredOrReact(t) ==
    /\ task[t].pc = "answering"
    /\ Move(t, "react")
    /\ UNCHANGED <<plans, scenarios, requests>>

\* The answer is synthesized, or the bare result stands in for it; the store
\* learns of the success.
Answered(t) ==
    LET k == task[t]
        s == IF k.reused THEN plans ELSE Added(k.id, k.template, k.query)
        \* a reused plan is looked up by its id, an added one is at hand
        found == IF k.reused THEN Positions(k.id)
                 ELSE {i \in DOMAIN s : ShapeOf[s[i].template] = k.id[2]}
    IN  /\ k.pc = "answering"
        /\ Return(t)
        /\ IF found = {} THEN plans' = s /\ UNCHANGED scenarios
           ELSE LET i == Best(found)
                IN  AfterSuccess(s, i, IF k.reused THEN WithAnchor(s[i], k.query) ELSE s[i])
        /\ UNCHANGED requests

\* The ReAct loop answers instead.
ReactAnswers(t) ==
    /\ task[t].pc = "react"
    /\ Return(t)
    /\ UNCHANGED <<plans, scenarios, requests>>

-----------------------------------------------------------------------------
(* The developer.                                                          *)

Approve(i) ==
    /\ ~plans[i].approved
    /\ plans' = [plans EXCEPT ![i].approved = TRUE]
    /\ UNCHANGED <<scenarios, task, requests>>

Promote(i) ==
    /\ ~plans[i].promoted
    /\ plans' = [plans EXCEPT ![i] = Promoted(@)]
    /\ scenarios' = scenarios \cup {plans[i].id}
    /\ UNCHANGED <<task, requests>>

Step(t) ==
    \/ \E q \in Query : Begin(t, q)
    \/ SlotsFound(t) \/ SlotsMissing(t)
    \/ (\E intent \in Intent : Planned(t, intent)) \/ NotPlanned(t)
    \/ ChainFails(t) \/ ChainRuns(t) \/ Answered(t) \/ ReactAnswers(t)

Next ==
    \/ \E t \in Tasks : Step(t)
    \/ \E i \in DOMAIN plans : Approve(i) \/ Promote(i)

Spec == Init /\ [][Next]_vars

-----------------------------------------------------------------------------
TypeOK ==
    /\ plans \in Seq(Plan)
    /\ scenarios \subseteq PlanId
    /\ task \in [Tasks -> Task]
    /\ requests \in 0..MaxRequests

\* Concurrent requests never cache two plans of one shape.
OnePlanPerShape ==
    \A i, j \in DOMAIN plans :
        ShapeOf[plans[i].template] = ShapeOf[plans[j].template] => i = j

\* The store exceeds max_size only by a single plan on trial among promoted ones.
StoreBounded ==
    \/ Len(plans) <= MaxSize
    \/ Cardinality({i \in DOMAIN plans : ~plans[i].promoted}) <= 1

\* A promoted plan and its scenario stay, whatever later runs report.
PromotedStays ==
    \A id \in scenarios : \E i \in DOMAIN plans : plans[i].id = id /\ plans[i].promoted

\* Whatever requests and the developer do to the store between the awaits of
\* another request, add() finds the plan of its shape, keeps the bound, and evicts
\* no promoted plan.
StoreSound == OnePlanPerShape /\ StoreBounded /\ PromotedStays

\* Once the whole chain has run, the request does not fall back to ReAct, which
\* would run the tools a second time.
NoSecondRun == \A t \in Tasks : task[t].pc = "react" => ~task[t].ran

\* The queries that matches lead to from q: q itself, the anchors far enough covered
\* by it, the anchors covered by those, and so on.
Leads(q) ==
    {a \in Query : \A S \in SUBSET Query :
        q \in S /\ (\A b \in S, c \in Query : Score[b][c] >= Threshold => c \in S) => a \in S}

\* A chain of shape x serves q, or a query that matches lead to from q.
ServesBy(q, x) == \E a \in Leads(q) : ShapeOf[TemplateOf[a]] = x

\* A word count cannot promise that a match is right (planner.py leaves that to the
\* developer's threshold), but nothing else leads a request astray: the fast path runs
\* a chain of the shape that serves the query or one that matches lead to from it,
\* however the plans were anchored, evicted and planned again meanwhile.  A query
\* that covers no anchor of another shape runs its own.  (Its constant arguments may
\* be those of another query: plans are told apart by their shape.)
RunsItsShape ==
    \A t \in Tasks : task[t].pc = "running" =>
        ServesBy(task[t].query, ShapeOf[task[t].template])

\* What the fast path runs is of a shape that matches lead to, and it runs it once.
FastPathSound == RunsItsShape /\ NoSecondRun

=============================================================================
