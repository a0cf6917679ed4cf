--------------------------- MODULE ScenarioEngine ---------------------------
(***************************************************************************)
(* One run of a scenario's tool chain (tools/scenario.py) on the tool      *)
(* executor (tools/executor.py), while tools are registered and            *)
(* unregistered.  The planner runs its chains through the same code.       *)
(*                                                                         *)
(* A step is named by its place <<entry, index>> in the chain.  Of a value *)
(* the model keeps the step that produced it and whether a condition on it *)
(* holds; a rendered input is the part of the bag that the step reads.     *)
(***************************************************************************)
EXTENDS Integers, Sequences, FiniteSets

CONSTANTS Tool, Var,
          Chains,      \* the tool chains: sequences of groups of steps
          Width,       \* bound on the steps of a group
          MaxRetries,  \* [Tool -> Nat]: max_retries
          Given,       \* the variables of extra_vars
          Missing,     \* the value of a variable the bag does not hold
          MaxChanges   \* bound on the changes of the registry

Step == [tool : Tool, reads : SUBSET Var, cond : {"always", "never", "if", "unless"},
         on : Var, extract : Var \cup {Missing}]

Places == UNION {{p \in (1..Len(c)) \X (1..Width) : p[2] <= Len(c[p[1]])} : c \in Chains}
Value == [by : Places \cup {<<0, 0>>}, holds : BOOLEAN]
Bag == [Var -> Value \cup {Missing}]

ASSUME ScenarioAssumption ==
    /\ \A c \in Chains : c \in Seq(Seq(Step)) /\ \A e \in DOMAIN c : Len(c[e]) <= Width
    /\ Width \in Nat
    /\ MaxRetries \in [Tool -> Nat]
    /\ Given \subseteq Var
    /\ Missing \notin Var /\ Missing \notin Value
    /\ MaxChanges \in Nat

VARIABLES
    chain,      \* the scenario's tool_chain
    bestEffort, \* on_group_failure = "best_effort"
    registered, \* the tools in the registry
    changes,    \* history: the changes of the registry
    pc,         \* the engine: select a group, run it, join it, done, or raised
    entry,      \* the entry it is at
    bag,        \* collected
    exec,       \* the calls of the executor, one per step of the group
    failed,     \* failed_steps
    last,       \* the step whose output is last_output, and whether it succeeded
    calls,      \* history: how often the tool of each step was called
    answered,   \* history: the steps whose tool answered
    succeeded   \* history: the joined steps that succeeded

vars == <<chain, bestEffort, registered, changes, pc, entry, bag, exec, failed, last,
          calls, answered, succeeded>>
run == <<pc, entry, bag, failed, last, succeeded>>
setting == <<chain, bestEffort, registered, changes>>

StepAt(p) == chain[p[1]][p[2]]
Here(i) == <<entry, i>>
Steps == {p \in Places : p[1] \in DOMAIN chain /\ p[2] \in DOMAIN chain[p[1]]}

Init ==
    /\ chain \in Chains /\ bestEffort \in BOOLEAN
    /\ registered = Tool /\ changes = 0
    /\ pc = "select" /\ entry = 1
    /\ bag \in [Var -> {Missing} \cup [by : {<<0, 0>>}, holds : BOOLEAN]]
    /\ {v \in Var : bag[v] # Missing} = Given
    /\ exec = << >>
    /\ failed = << >> /\ last = [at |-> <<0, 0>>, ok |-> TRUE]
    /\ calls = [p \in Places |-> 0] /\ answered = {} /\ succeeded = {}

-----------------------------------------------------------------------------
(* The engine.                                                             *)

\* _eval_condition; a comparison with a literal is a condition on the value.
Eval(step) ==
    LET holds == bag[step.on] # Missing /\ bag[step.on].holds
    IN  CASE step.cond = "always" -> TRUE
          [] step.cond = "never"  -> FALSE
          [] step.cond = "if"     -> holds
          [] step.cond = "unless" -> ~holds

\* _render_kwargs: a missing variable stays as it is written.
Render(b, step) == [v \in step.reads |-> b[v]]

\* Mutant: an entry without a step to run is not left.
SelectStays ==
    LET group == {i \in DOMAIN chain[entry] : Eval(chain[entry][i])}
    IN  /\ pc = "select" /\ entry \in DOMAIN chain
        /\ group # {}
        /\ pc' = "run"
        /\ exec' = [i \in group |->
             [pc |-> "new", attempt |-> 0, ok |-> FALSE, holds |-> FALSE,
              input |-> Render(bag, chain[entry][i]), joined |-> FALSE]]
        /\ UNCHANGED <<entry, bag, failed, last, succeeded, setting, calls, answered>>

\* The steps of the entry whose condition holds, with their inputs.
Select ==
    LET group == {i \in DOMAIN chain[entry] : Eval(chain[entry][i])}
    IN  /\ pc = "select" /\ entry \in DOMAIN chain
        /\ IF group = {}
           THEN entry' = entry + 1 /\ UNCHANGED <<pc, exec>>
           ELSE /\ pc' = "run"
                /\ exec' = [i \in group |->
                     [pc |-> "new", attempt |-> 0, ok |-> FALSE, holds |-> FALSE,
                      input |-> Render(bag, chain[entry][i]), joined |-> FALSE]]
                /\ UNCHANGED entry
        /\ UNCHANGED <<bag, failed, last, succeeded, setting, calls, answered>>

\* gather returns when every call has.
Gather ==
    /\ pc = "run"
    /\ \A i \in DOMAIN exec : exec[i].pc = "done"
    /\ pc' = "join"
    /\ UNCHANGED <<entry, bag, failed, last, succeeded, setting, exec, calls, answered>>

\* Mutant: the outputs are joined as they come.
AnyToJoin == {i \in DOMAIN exec : ~exec[i].joined}

\* The outputs are joined in the order of the steps.
ToJoin ==
    {i \in DOMAIN exec : ~exec[i].joined /\ \A j \in 1..(i - 1) \cap DOMAIN exec : exec[j].joined}

\* Mutant: the first failure ends the loop over the outputs.
JoinBreaks(i) ==
    LET x == exec[i]
        step == chain[entry][i]
    IN  /\ exec' = [j \in DOMAIN exec |->
             IF j = i \/ ~x.ok THEN [exec[j] EXCEPT !.joined = TRUE] ELSE exec[j]]
        /\ IF x.ok /\ step.extract # Missing
           THEN bag' = [bag EXCEPT ![step.extract] = [by |-> Here(i), holds |-> x.holds]]
           ELSE UNCHANGED bag
        /\ last' = [at |-> Here(i), ok |-> x.ok]
        /\ failed' = IF x.ok THEN failed ELSE Append(failed, Here(i))
        /\ succeeded' = IF x.ok THEN succeeded \cup {Here(i)} ELSE succeeded

\* One output: extract_to, last_output, failed_steps.
Join(i) ==
    LET x == exec[i]
        step == chain[entry][i]
    IN  /\ exec' = [exec EXCEPT ![i].joined = TRUE]
        /\ IF x.ok /\ step.extract # Missing
           THEN bag' = [bag EXCEPT ![step.extract] = [by |-> Here(i), holds |-> x.holds]]
           ELSE UNCHANGED bag
        /\ last' = [at |-> Here(i), ok |-> x.ok]
        /\ failed' = IF x.ok THEN failed ELSE Append(failed, Here(i))
        /\ succeeded' = IF x.ok THEN succeeded \cup {Here(i)} ELSE succeeded

JoinNext ==
    /\ pc = "join"
    /\ \E i \in ToJoin : Join(i)
    /\ UNCHANGED <<pc, entry, setting, calls, answered>>

\* Mutant: only the last output of the group decides.
LastFailed == ~last.ok

GroupFailed == \E i \in DOMAIN exec : ~exec[i].ok

\* The group is joined: on to the next entry, unless it failed.
NextEntry ==
    /\ pc = "join"
    /\ \A i \in DOMAIN exec : exec[i].joined
    /\ IF GroupFailed /\ ~bestEffort
       THEN pc' = "done" /\ UNCHANGED entry
       ELSE pc' = "select" /\ entry' = entry + 1
    /\ exec' = << >>
    /\ UNCHANGED <<bag, failed, last, succeeded, setting, calls, answered>>

Finish ==
    /\ pc = "select" /\ entry \notin DOMAIN chain
    /\ pc' = "done"
    /\ UNCHANGED <<entry, bag, failed, last, succeeded, setting, exec, calls, answered>>

\* The step_callback raises: before the group, after a step that succeeded, or
\* after one that failed and is not among the failed steps yet; or the request is
\* cancelled while the tools of the group run, and gather cancels them.
CallbackRaises ==
    /\ \/ pc = "run" /\ UNCHANGED last
       \/ pc = "join" /\ last.at[1] = entry /\ last.ok /\ UNCHANGED last
       \/ pc = "join" /\ \E i \in ToJoin : ~exec[i].ok /\ last' = [at |-> Here(i), ok |-> FALSE]
    /\ pc' = "raised"
    /\ exec' = << >>
    /\ UNCHANGED <<entry, bag, failed, succeeded, setting, calls, answered>>

-----------------------------------------------------------------------------
(* The executor.                                                           *)

Running(i) == pc = "run" /\ i \in DOMAIN exec
ToolOf(i) == chain[entry][i].tool

Fail(i) == exec' = [exec EXCEPT ![i].pc = "done", ![i].ok = FALSE]

\* The tool is called; what it does before it answers, it may have done.
CallTool(i) ==
    /\ exec' = [exec EXCEPT ![i].pc = "calling", ![i].attempt = @ + 1]
    /\ calls' = [calls EXCEPT ![Here(i)] = @ + 1]

\* Mutant: the input is rendered when the call starts, with what the group
\* has produced so far.
StartRendersLate(i) ==
    LET seen == [v \in Var |->
          IF \E j \in DOMAIN exec : exec[j].pc = "done" /\ exec[j].ok
                                    /\ chain[entry][j].extract = v
          THEN [by |-> Here(CHOOSE j \in DOMAIN exec :
                              exec[j].ok /\ chain[entry][j].extract = v), holds |-> TRUE]
          ELSE bag[v]]
    IN  /\ Running(i) /\ exec[i].pc = "new"
        /\ exec' = [exec EXCEPT ![i].pc = "calling", ![i].attempt = @ + 1,
                                ![i].input = Render(seen, chain[entry][i])]
        /\ calls' = [calls EXCEPT ![Here(i)] = @ + 1]
        /\ UNCHANGED <<run, setting, answered>>

\* Looked up and validated; max_retries = 0 calls nothing.
Start(i) ==
    /\ Running(i) /\ exec[i].pc = "new"
    /\ IF ToolOf(i) \in registered /\ MaxRetries[ToolOf(i)] > 0
       THEN CallTool(i)
       ELSE Fail(i) /\ UNCHANGED calls
    /\ UNCHANGED <<run, setting, answered>>

\* validate_input says no, or raises: gather hands the exception on.
Reject(i) ==
    /\ Running(i) /\ exec[i].pc = "new"
    /\ ToolOf(i) \in registered
    /\ Fail(i)
    /\ UNCHANGED <<run, setting, calls, answered>>

\* Mutant: a returned failure is retried too.
AnswerRetries(i, ok, holds) ==
    /\ Running(i) /\ exec[i].pc = "calling"
    /\ exec' = IF ok \/ exec[i].attempt >= MaxRetries[ToolOf(i)]
               THEN [exec EXCEPT ![i].pc = "done", ![i].ok = ok, ![i].holds = holds]
               ELSE [exec EXCEPT ![i].pc = "backoff"]
    /\ answered' = answered \cup {Here(i)}
    /\ UNCHANGED <<run, setting, calls>>

\* The tool answers, with a result or with a failure: that is the output.
Answer(i, ok, holds) ==
    /\ Running(i) /\ exec[i].pc = "calling"
    /\ exec' = [exec EXCEPT ![i].pc = "done", ![i].ok = ok, ![i].holds = holds]
    /\ answered' = answered \cup {Here(i)}
    /\ UNCHANGED <<run, setting, calls>>

\* Mutant: one more attempt than max_retries.
RaiseOnceMore(i) ==
    /\ Running(i) /\ exec[i].pc = "calling"
    /\ IF exec[i].attempt <= MaxRetries[ToolOf(i)]
       THEN exec' = [exec EXCEPT ![i].pc = "backoff"]
       ELSE Fail(i)
    /\ UNCHANGED <<run, setting, calls, answered>>

\* The tool raises, or does not answer in time and is cancelled.
Raise(i) ==
    /\ Running(i) /\ exec[i].pc = "calling"
    /\ IF exec[i].attempt < MaxRetries[ToolOf(i)]
       THEN exec' = [exec EXCEPT ![i].pc = "backoff"]
       ELSE Fail(i)
    /\ UNCHANGED <<run, setting, calls, answered>>

\* The backoff is over.  The tool is the one that was looked up at first.
Retry(i) ==
    /\ Running(i) /\ exec[i].pc = "backoff"
    /\ CallTool(i)
    /\ UNCHANGED <<run, setting, answered>>

-----------------------------------------------------------------------------
(* Another task registers or unregisters a tool.                           *)

Change(t) ==
    /\ changes < MaxChanges /\ changes' = changes + 1
    /\ registered' = IF t \in registered THEN registered \ {t} ELSE registered \cup {t}
    /\ UNCHANGED <<chain, bestEffort, run, exec, calls, answered>>

Engine == Select \/ Gather \/ JoinNext \/ NextEntry \/ Finish

Executor(i) ==
    \/ Start(i) \/ Reject(i) \/ Raise(i) \/ Retry(i)
    \/ \E ok, holds \in BOOLEAN : Answer(i, ok, holds)

Next ==
    \/ Engine \/ CallbackRaises
    \/ \E i \in DOMAIN exec : Executor(i)
    \/ \E t \in Tool : Change(t)

Spec == Init /\ [][Next]_vars

\* Every wait of the executor has a timeout, asyncio runs what is ready, and the
\* step_callback comes back.
Fairness == WF_vars(Engine) /\ \A i \in 1..Width : WF_vars(Executor(i))

FairSpec == Spec /\ Fairness

-----------------------------------------------------------------------------
TypeOK ==
    /\ chain \in Chains /\ bestEffort \in BOOLEAN
    /\ registered \subseteq Tool /\ changes \in 0..MaxChanges
    /\ pc \in {"select", "run", "join", "done", "raised"}
    /\ entry \in 1..(Len(chain) + 1)
    /\ bag \in Bag
    /\ \A i \in DOMAIN exec :
         /\ exec[i].pc \in {"new", "calling", "backoff", "done"}
         /\ exec[i].attempt \in 0..MaxRetries[ToolOf(i)]
         /\ {exec[i].ok, exec[i].holds, exec[i].joined} \subseteq BOOLEAN
    /\ failed \in Seq(Places) /\ last \in [at : Places \cup {<<0, 0>>}, ok : BOOLEAN]
    /\ calls \in [Places -> Nat] /\ answered \subseteq Places /\ succeeded \subseteq Places

\* Steps of a group have no dependencies on each other: none of them sees the
\* output of another, however their calls, retries and answers interleave.
GroupIsolated ==
    \A i \in DOMAIN exec : \A v \in chain[entry][i].reads :
        exec[i].input[v] # Missing => exec[i].input[v].by[1] < entry

\* Under fail_fast no tool of a later entry is called once a step has failed,
\* wherever in its group it stands.
FailFastStops ==
    ~bestEffort => \A k \in DOMAIN failed : \A p \in Steps :
        p[1] > failed[k][1] => calls[p] = 0

Before(p, q) == p[1] < q[1] \/ (p[1] = q[1] /\ p[2] < q[2])

\* The order of the answers of a group does not matter.  A variable holds the
\* output of the last step, in the order of the chain, that extracts to it and
\* succeeded; failed_steps names every step that ran and did not succeed, once
\* and in the order of the chain.
JoinedInOrder ==
    /\ pc \in {"select", "done", "raised"} =>
         \A p \in succeeded :
             LET v == StepAt(p).extract
             IN  v # Missing =>
                   /\ bag[v].by \in succeeded
                   /\ ~Before(bag[v].by, p)
    /\ \A j, k \in DOMAIN failed : j < k => Before(failed[j], failed[k])
    /\ pc = "done" => \A p \in Steps :
         calls[p] > 0 => p \in succeeded \/ \E k \in DOMAIN failed : failed[k] = p

\* A chain computes what it would compute without interleaving: the three above.
ChainSound == GroupIsolated /\ FailFastStops /\ JoinedInOrder

\* A tool that answered, with a result or with a failure, is not called again
\* by the same step.
AnsweredOnce == [][\A p \in answered : calls'[p] = calls[p]]_vars

\* The run comes to its end, whatever the tools do and wherever a callback raises.
RunEnds == <>(pc \in {"done", "raised"})

=============================================================================
