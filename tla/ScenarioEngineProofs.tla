------------------------ MODULE ScenarioEngineProofs ------------------------
(***************************************************************************)
(* Proofs about ScenarioEngine, for any chains, tools and retries: the     *)
(* steps of a group do not see each other, fail_fast stops the chain, the  *)
(* outputs are joined in order, and a tool that answered is not called     *)
(* again.                                                                  *)
(***************************************************************************)
EXTENDS ScenarioEngine, TLAPS

Call == [pc : {"new", "calling", "backoff", "done"}, attempt : Nat, ok : BOOLEAN,
         holds : BOOLEAN, input : UNION {[R -> Value \cup {Missing}] : R \in SUBSET Var},
         joined : BOOLEAN]

\* The calls of the group at hand, joined from the first on when all are done.
GroupInv ==
    /\ pc \in {"run", "join"} => entry \in DOMAIN chain /\ DOMAIN exec \subseteq DOMAIN chain[entry]
    /\ pc \in {"select", "done", "raised"} => DOMAIN exec = {}
    /\ \A i \in DOMAIN exec :
         /\ exec[i] \in Call
         /\ exec[i].pc = "new" => exec[i].attempt = 0
         /\ exec[i].pc = "backoff" => exec[i].attempt < MaxRetries[ToolOf(i)]
         /\ exec[i].attempt <= MaxRetries[ToolOf(i)]
         /\ exec[i].joined => pc = "join"
         /\ pc = "join" => exec[i].pc = "done"
    /\ \A i, j \in DOMAIN exec : exec[j].joined /\ i < j => exec[i].joined

\* Until the group is joined the bag holds the outputs of earlier entries.
BagInv ==
    \A v \in Var : bag[v] # Missing =>
        /\ pc \in {"select", "run"} => bag[v].by[1] < entry
        /\ bag[v].by[1] <= entry

\* A step the engine has come to, and one whose output it has joined.
Reached(p) == p[1] < entry \/ (p[1] = entry /\ (pc \in {"done", "raised"} \/ p[2] \in DOMAIN exec))
Joined(p) ==
    \/ p[1] < entry
    \/ /\ p[1] = entry
       /\ pc \in {"done", "raised"} \/ (p[2] \in DOMAIN exec /\ exec[p[2]].joined)
Reported(p) == p \in succeeded \/ \E k \in DOMAIN failed : failed[k] = p

HistoryInv ==
    /\ \A p \in Places : calls[p] > 0 =>
         /\ Reached(p)
         /\ \/ Reported(p)
            \/ p[1] = entry /\ p[2] \in DOMAIN exec /\ ~exec[p[2]].joined
            \/ p[1] = entry /\ pc = "raised"
    /\ \A p \in answered :
         /\ Reached(p)
         /\ p[1] = entry /\ p[2] \in DOMAIN exec => exec[p[2]].pc = "done"
    /\ \A p \in succeeded : p \in Steps /\ Joined(p)
    /\ \A k \in DOMAIN failed : Joined(failed[k])

\* Under fail_fast the failed steps are those of one group, the last.
FailFastInv ==
    ~bestEffort /\ failed # << >> =>
        /\ pc \in {"join", "done", "raised"}
        /\ \A k \in DOMAIN failed : failed[k][1] = entry
        /\ pc = "join" => GroupFailed

\* The order of the outputs, at every place of the engine.
OrderInv ==
    /\ \A p \in succeeded :
         LET v == StepAt(p).extract
         IN  v # Missing => bag[v] # Missing /\ bag[v].by \in succeeded /\ ~Before(bag[v].by, p)
    /\ \A j, k \in DOMAIN failed : j < k => Before(failed[j], failed[k])

IInv ==
    /\ TypeOK /\ GroupInv /\ BagInv /\ GroupIsolated
    /\ HistoryInv /\ FailFastInv /\ OrderInv

-----------------------------------------------------------------------------
(* Chains and places.                                                      *)

LEMMA ChainIs ==
    ASSUME TypeOK
    PROVE  /\ chain \in Seq(Seq(Step)) /\ Len(chain) \in Nat /\ DOMAIN chain = 1..Len(chain)
           /\ \A e \in DOMAIN chain :
                /\ chain[e] \in Seq(Step) /\ Len(chain[e]) \in Nat /\ Len(chain[e]) <= Width
                /\ DOMAIN chain[e] = 1..Len(chain[e])
                /\ \A i \in DOMAIN chain[e] : chain[e][i] \in Step
           /\ entry \in Nat
<1>1. chain \in Seq(Seq(Step)) /\ \A e \in DOMAIN chain : Len(chain[e]) <= Width
  BY ScenarioAssumption DEF TypeOK
<1>2. Len(chain) \in Nat /\ DOMAIN chain = 1..Len(chain)
      /\ \A e \in DOMAIN chain : chain[e] \in Seq(Step)
  BY <1>1
<1>3. entry \in Nat
  BY <1>2 DEF TypeOK
<1> QED BY <1>1, <1>2, <1>3

LEMMA PlaceIs ==
    ASSUME NEW p \in Places
    PROVE  p[1] \in Nat /\ p[2] \in Nat /\ p = <<p[1], p[2]>>
<1>1. PICK c \in Chains : p \in (1..Len(c)) \X (1..Width)
  BY DEF Places
<1>2. Len(c) \in Nat /\ Width \in Nat
  BY ScenarioAssumption
<1> QED BY <1>1, <1>2

\* A step of the entry at hand has its place, and its tool.
LEMMA HereIs ==
    ASSUME TypeOK, entry \in DOMAIN chain, NEW i \in DOMAIN chain[entry]
    PROVE  /\ Here(i) \in Places /\ Here(i) \in Steps
           /\ Here(i)[1] = entry /\ Here(i)[2] = i /\ i \in Nat
           /\ StepAt(Here(i)) = chain[entry][i] /\ chain[entry][i] \in Step
           /\ ToolOf(i) \in Tool /\ MaxRetries[ToolOf(i)] \in Nat
<1>1. /\ entry \in 1..Len(chain) /\ i \in 1..Len(chain[entry]) /\ Len(chain[entry]) <= Width
      /\ Len(chain[entry]) \in Nat /\ chain[entry][i] \in Step
  BY ChainIs
<1>2. i \in 1..Width
  BY <1>1, ScenarioAssumption
<1>3. Here(i) \in (1..Len(chain)) \X (1..Width) /\ Here(i)[1] = entry /\ Here(i)[2] = i
  BY <1>1, <1>2 DEF Here
<1>4. Here(i) \in {p \in (1..Len(chain)) \X (1..Width) : p[2] <= Len(chain[p[1]])}
  BY <1>1, <1>3
<1>5. Here(i) \in Places
  BY <1>4 DEF Places, TypeOK
<1>6. Here(i) \in Steps
  BY <1>3, <1>5 DEF Steps
<1>7. StepAt(Here(i)) = chain[entry][i]
  BY <1>3 DEF StepAt
<1>8. ToolOf(i) \in Tool /\ MaxRetries[ToolOf(i)] \in Nat
  BY <1>1, ScenarioAssumption DEF ToolOf, Step
<1> QED BY <1>1, <1>3, <1>5, <1>6, <1>7, <1>8

LEMMA InitInv == Init => IInv
<1> SUFFICES ASSUME Init PROVE IInv
  OBVIOUS
<1>1. /\ chain \in Chains /\ bestEffort \in BOOLEAN
      /\ registered = Tool /\ changes = 0 /\ pc = "select" /\ entry = 1
      /\ exec = << >> /\ failed = << >> /\ last = [at |-> <<0, 0>>, ok |-> TRUE]
      /\ calls = [p \in Places |-> 0] /\ answered = {} /\ succeeded = {}
  BY DEF Init
<1>2. bag \in [Var -> {Missing} \cup [by : {<<0, 0>>}, holds : BOOLEAN]]
  BY DEF Init
<1>3. /\ bag \in Bag /\ \A v \in Var : bag[v] # Missing => bag[v].by[1] = 0
  <2>1. \A x \in [by : {<<0, 0>>}, holds : BOOLEAN] : x \in Value /\ x.by[1] = 0
    BY DEF Value
  <2> QED BY <1>2, <2>1 DEF Bag
<1>4. TypeOK
  <2>1. chain \in Seq(Seq(Step))
    BY <1>1, ScenarioAssumption
  <2>2. entry \in 1..(Len(chain) + 1)
    BY <1>1, <2>1
  <2>3. failed \in Seq(Places) /\ DOMAIN exec = {}
    BY <1>1
  <2> QED BY <1>1, <1>3, <2>2, <2>3, ScenarioAssumption DEF TypeOK
<1>5. DOMAIN exec = {} /\ DOMAIN failed = {}
  BY <1>1
<1>6. GroupInv /\ GroupIsolated
  BY <1>1, <1>5 DEF GroupInv, GroupIsolated
<1>7. BagInv
  BY <1>1, <1>3 DEF BagInv
<1>8. HistoryInv /\ FailFastInv /\ OrderInv
  BY <1>1, <1>5 DEF HistoryInv, FailFastInv, OrderInv
<1> QED BY <1>4, <1>6, <1>7, <1>8 DEF IInv

-----------------------------------------------------------------------------
(* The executor.                                                           *)

\* A step of one call: nothing of it is joined, and a call that was answered does
\* not go on.
LEMMA ExecutorInv ==
    ASSUME IInv, NEW i, Running(i), exec[i].pc # "done",
           NEW x \in Call, exec' = [exec EXCEPT ![i] = x],
           x.input = exec[i].input, x.joined = exec[i].joined,
           x.pc # "new", x.attempt <= MaxRetries[ToolOf(i)],
           x.pc = "backoff" => x.attempt < MaxRetries[ToolOf(i)],
           UNCHANGED <<run, setting>>,
           calls' = calls \/ calls' = [calls EXCEPT ![Here(i)] = @ + 1],
           answered' = answered \/ (answered' = answered \cup {Here(i)} /\ x.pc = "done")
    PROVE  IInv' /\ \A p \in answered : calls'[p] = calls[p]
<1>0. /\ TypeOK /\ GroupInv /\ BagInv /\ GroupIsolated /\ HistoryInv /\ FailFastInv /\ OrderInv
      /\ pc = "run" /\ i \in DOMAIN exec
  BY DEF IInv, Running
<1>1. /\ entry \in DOMAIN chain /\ DOMAIN exec \subseteq DOMAIN chain[entry]
      /\ Here(i) \in Places /\ Here(i)[1] = entry /\ Here(i)[2] = i
  BY <1>0, HereIs DEF GroupInv
<1>2. UNCHANGED <<chain, bestEffort, registered, changes, pc, entry, bag, failed, last, succeeded>>
  BY DEF run, setting
<1>3. /\ DOMAIN exec' = DOMAIN exec /\ exec'[i] = x
      /\ \A j \in DOMAIN exec : j # i => exec'[j] = exec[j]
      /\ \A j \in DOMAIN exec : exec'[j].input = exec[j].input /\ exec'[j].joined = exec[j].joined
      /\ ~exec[i].joined
  BY <1>0 DEF GroupInv
<1>4. /\ calls' \in [Places -> Nat] /\ \A p \in Places : p # Here(i) => calls'[p] = calls[p]
      /\ answered' \subseteq Places
  BY <1>0, <1>1 DEF TypeOK
<1>5. GroupInv'
  BY <1>0, <1>2, <1>3 DEF GroupInv, ToolOf
<1>6. TypeOK'
  <2>1. ASSUME NEW j \in DOMAIN exec'
        PROVE  /\ exec'[j].pc \in {"new", "calling", "backoff", "done"}
               /\ exec'[j].attempt \in 0..MaxRetries[ToolOf(j)']
               /\ {exec'[j].ok, exec'[j].holds, exec'[j].joined} \subseteq BOOLEAN
    <3>1. exec'[j] \in Call /\ exec'[j].attempt <= MaxRetries[ToolOf(j)']
      BY <1>5 DEF GroupInv
    <3>2. MaxRetries[ToolOf(j)] \in Nat /\ ToolOf(j)' = ToolOf(j)
      BY <1>0, <1>1, <1>2, <1>3, HereIs DEF ToolOf
    <3>3. exec'[j].attempt \in 0..MaxRetries[ToolOf(j)']
      BY <3>1, <3>2 DEF Call
    <3> QED BY <3>1, <3>3 DEF Call
  <2> QED BY <1>0, <1>2, <1>4, <2>1 DEF TypeOK
<1>7. BagInv' /\ FailFastInv'
  BY <1>0, <1>2 DEF BagInv, FailFastInv
<1>8. GroupIsolated'
  BY <1>0, <1>2, <1>3 DEF GroupIsolated
<1>9. OrderInv'
  BY <1>0, <1>2 DEF OrderInv, StepAt
<1>10. \A p \in Places : p # Here(i) => p[1] # entry \/ p[2] # i
  BY PlaceIs DEF Here
<1>11. HistoryInv'
  <2>1. ASSUME NEW p \in Places, calls'[p] > 0
        PROVE  /\ Reached(p)'
               /\ Reported(p)' \/ (p[1] = entry' /\ p[2] \in DOMAIN exec' /\ ~exec'[p[2]].joined)
    <3>1. CASE p = Here(i)
      BY <3>1, <1>0, <1>1, <1>2, <1>3 DEF Reached
    <3>2. CASE p # Here(i)
      <4>1. calls[p] > 0
        BY <3>2, <2>1, <1>4
      <4>2. Reached(p) /\ (Reported(p)
              \/ (p[1] = entry /\ p[2] \in DOMAIN exec /\ ~exec[p[2]].joined))
        BY <4>1, <1>0 DEF HistoryInv
      <4> QED BY <4>2, <1>2, <1>3 DEF Reached, Reported
    <3> QED BY <3>1, <3>2
  <2>2. ASSUME NEW p \in answered'
        PROVE  /\ Reached(p)'
               /\ p[1] = entry' /\ p[2] \in DOMAIN exec' => exec'[p[2]].pc = "done"
    <3>1. CASE p \in answered
      <4>1. p \in Places /\ Reached(p)
            /\ (p[1] = entry /\ p[2] \in DOMAIN exec => exec[p[2]].pc = "done")
        BY <3>1, <1>0 DEF HistoryInv, TypeOK
      <4>2. ~(p[1] = entry /\ p[2] = i)
        BY <4>1, <1>0
      <4> QED BY <4>1, <4>2, <1>2, <1>3 DEF Reached
    <3>2. CASE p = Here(i) /\ x.pc = "done"
      BY <3>2, <1>0, <1>1, <1>2, <1>3 DEF Reached
    <3> QED BY <2>2, <3>1, <3>2
  <2>3. \A p \in succeeded' : p \in Steps' /\ Joined(p)'
    BY <1>0, <1>2, <1>3 DEF HistoryInv, Steps, Joined
  <2>4. \A k \in DOMAIN failed' : Joined(failed[k])'
    BY <1>0, <1>2, <1>3 DEF HistoryInv, Joined
  <2> QED BY <2>1, <2>2, <2>3, <2>4, <1>2 DEF HistoryInv
<1>12. ASSUME NEW p \in answered PROVE calls'[p] = calls[p]
  <2>1. p \in Places /\ p # Here(i)
    BY <1>0, <1>1 DEF HistoryInv, TypeOK
  <2> QED BY <2>1, <1>4
<1> QED BY <1>5, <1>6, <1>7, <1>8, <1>9, <1>11, <1>12 DEF IInv

\* The executor's actions are steps of one call.
LEMMA CallStep ==
    ASSUME IInv, NEW i \in DOMAIN exec, Executor(i)
    PROVE  IInv' /\ \A p \in answered : calls'[p] = calls[p]
<1>0. Running(i) /\ pc = "run"
  BY DEF Executor, Start, Reject, Raise, Retry, Answer, Running
<1>1. /\ exec[i] \in Call /\ exec[i].attempt \in Nat /\ MaxRetries[ToolOf(i)] \in Nat
      /\ exec[i].attempt <= MaxRetries[ToolOf(i)]
      /\ exec[i].pc = "new" => exec[i].attempt = 0
      /\ exec[i].pc = "backoff" => exec[i].attempt < MaxRetries[ToolOf(i)]
  <2>1. entry \in DOMAIN chain /\ i \in DOMAIN chain[entry] /\ TypeOK
    BY <1>0 DEF IInv, GroupInv
  <2>2. exec[i] \in Call
    BY DEF IInv, GroupInv
  <2> QED BY <2>1, <2>2, HereIs DEF IInv, GroupInv, Call
<1> DEFINE called == [exec[i] EXCEPT !.pc = "calling", !.attempt = @ + 1]
           dead == [exec[i] EXCEPT !.pc = "done", !.ok = FALSE]
           waits == [exec[i] EXCEPT !.pc = "backoff"]
<1>2. /\ called \in Call /\ called.input = exec[i].input /\ called.joined = exec[i].joined
      /\ called.pc = "calling" /\ called.attempt = exec[i].attempt + 1
  <2>1. PICK n \in Nat : n = exec[i].attempt + 1
    BY <1>1
  <2>2. called = [exec[i] EXCEPT !.pc = "calling", !.attempt = n]
    BY <2>1
  <2> HIDE DEF called
  <2>3. exec[i] \in Call /\ n \in Nat
    BY <1>1
  <2>4. /\ called \in Call /\ called.input = exec[i].input /\ called.joined = exec[i].joined
        /\ called.pc = "calling" /\ called.attempt = n
    BY <2>2, <2>3 DEF Call
  <2> QED BY <2>1, <2>4
<1>3. /\ dead \in Call /\ dead.input = exec[i].input /\ dead.joined = exec[i].joined
      /\ dead.pc = "done" /\ dead.attempt = exec[i].attempt
  BY <1>1 DEF Call
<1>4. /\ waits \in Call /\ waits.input = exec[i].input /\ waits.joined = exec[i].joined
      /\ waits.pc = "backoff" /\ waits.attempt = exec[i].attempt
  BY <1>1 DEF Call
<1>5. CallTool(i) => exec' = [exec EXCEPT ![i] = called]
                     /\ calls' = [calls EXCEPT ![Here(i)] = @ + 1]
  BY <1>1 DEF CallTool, Call
<1>6. Fail(i) => exec' = [exec EXCEPT ![i] = dead]
  BY <1>1 DEF Fail, Call
<1> HIDE DEF called, dead, waits
<1>7. ASSUME CallTool(i), exec[i].pc # "done", exec[i].attempt < MaxRetries[ToolOf(i)],
             UNCHANGED <<run, setting, answered>>
      PROVE  IInv' /\ \A p \in answered : calls'[p] = calls[p]
  <2>1. called.attempt <= MaxRetries[ToolOf(i)]
    BY <1>1, <1>2, <1>7
  <2> QED BY <2>1, <1>0, <1>2, <1>5, <1>7, ExecutorInv
<1>8. ASSUME Fail(i), exec[i].pc # "done", UNCHANGED <<run, setting, calls, answered>>
      PROVE  IInv' /\ \A p \in answered : calls'[p] = calls[p]
  BY <1>0, <1>1, <1>3, <1>6, <1>8, ExecutorInv
<1>9. CASE Start(i)
  <2>1. exec[i].pc = "new" /\ UNCHANGED <<run, setting, answered>>
    BY <1>9 DEF Start
  <2>2. CASE CallTool(i) /\ MaxRetries[ToolOf(i)] > 0
    <3>1. exec[i].attempt < MaxRetries[ToolOf(i)]
      BY <2>1, <2>2, <1>1
    <3> QED BY <2>1, <2>2, <3>1, <1>7
  <2>3. CASE Fail(i) /\ UNCHANGED calls
    BY <2>1, <2>3, <1>8
  <2> QED BY <1>9, <2>2, <2>3 DEF Start
<1>10. CASE Reject(i)
  BY <1>8, <1>10 DEF Reject
<1>11. CASE Raise(i)
  <2>1. exec[i].pc = "calling" /\ UNCHANGED <<run, setting, calls, answered>>
    BY <1>11 DEF Raise
  <2>2. CASE exec[i].attempt < MaxRetries[ToolOf(i)] /\ exec' = [exec EXCEPT ![i].pc = "backoff"]
    <3>1. exec' = [exec EXCEPT ![i] = waits]
      BY <2>2, <1>1 DEF waits, Call
    <3> QED BY <2>1, <2>2, <3>1, <1>0, <1>1, <1>4, ExecutorInv
  <2>3. CASE Fail(i)
    BY <2>1, <2>3, <1>8
  <2> QED BY <1>11, <2>2, <2>3 DEF Raise
<1>12. CASE Retry(i)
  BY <1>1, <1>7, <1>12 DEF Retry
<1>13. ASSUME NEW ok \in BOOLEAN, NEW holds \in BOOLEAN, Answer(i, ok, holds)
       PROVE  IInv' /\ \A p \in answered : calls'[p] = calls[p]
  <2> DEFINE x == [exec[i] EXCEPT !.pc = "done", !.ok = ok, !.holds = holds]
  <2>1. /\ x \in Call /\ x.input = exec[i].input /\ x.joined = exec[i].joined
        /\ x.pc = "done" /\ x.attempt = exec[i].attempt
    BY <1>1 DEF Call
  <2>2. /\ exec' = [exec EXCEPT ![i] = x] /\ exec[i].pc = "calling"
        /\ answered' = answered \cup {Here(i)} /\ UNCHANGED <<run, setting, calls>>
    BY <1>1, <1>13 DEF Answer, Call
  <2> HIDE DEF x
  <2> QED BY <1>0, <1>1, <2>1, <2>2, ExecutorInv
<1> QED BY <1>9, <1>10, <1>11, <1>12, <1>13 DEF Executor

-----------------------------------------------------------------------------
(* The engine.                                                             *)

LEMMA SelectInv == ASSUME IInv, Select PROVE IInv'
<1> DEFINE group == {i \in DOMAIN chain[entry] : Eval(chain[entry][i])}
<1>0. /\ TypeOK /\ GroupInv /\ BagInv /\ GroupIsolated /\ HistoryInv /\ FailFastInv /\ OrderInv
      /\ pc = "select" /\ entry \in DOMAIN chain /\ DOMAIN exec = {}
      /\ UNCHANGED <<chain, bestEffort, registered, changes, bag, failed, last, succeeded,
                     calls, answered>>
  BY DEF IInv, Select, setting, GroupInv
<1>1. /\ entry \in 1..Len(chain) /\ Len(chain) \in Nat
      /\ \A i \in DOMAIN chain[entry] : chain[entry][i] \in Step
      /\ \A i \in DOMAIN chain[entry] : MaxRetries[ToolOf(i)] \in Nat
  BY <1>0, ChainIs, HereIs
<1>2. \A p \in Places : p[1] \in Nat /\ p[2] \in Nat
  BY PlaceIs
<1>3. \A p \in succeeded : p \in Places
  BY <1>0 DEF TypeOK
<1>4. \A k \in DOMAIN failed : failed[k] \in Places
  BY <1>0 DEF TypeOK
<1>5. CASE group = {}
  <2>1. entry' = entry + 1 /\ pc' = pc /\ exec' = exec
    BY <1>5 DEF Select
  <2>2. TypeOK'
    <3>1. entry' \in 1..(Len(chain') + 1)
      BY <1>0, <1>1, <2>1
    <3> QED BY <1>0, <2>1, <3>1 DEF TypeOK
  <2>3. GroupInv' /\ GroupIsolated'
    BY <1>0, <2>1 DEF GroupInv, GroupIsolated
  <2>4. BagInv'
    <3>1. \A v \in Var : bag[v] # Missing => bag[v].by[1] \in Nat
      <4>1. \A v \in Var : bag[v] # Missing => bag[v].by \in Places \cup {<<0, 0>>}
        BY <1>0 DEF TypeOK, Bag, Value
      <4> QED BY <4>1, <1>2
    <3> QED BY <1>0, <1>1, <2>1, <3>1 DEF BagInv
  <2>5. HistoryInv'
    BY <1>0, <1>1, <1>2, <1>3, <1>4, <2>1
       DEF HistoryInv, Reached, Joined, Reported, TypeOK, Steps
  <2>6. FailFastInv' /\ OrderInv'
    BY <1>0, <2>1 DEF FailFastInv, OrderInv, StepAt
  <2> QED BY <2>2, <2>3, <2>4, <2>5, <2>6 DEF IInv
<1>6. CASE group # {}
  <2>1. /\ pc' = "run" /\ entry' = entry
        /\ exec' = [i \in group |->
             [pc |-> "new", attempt |-> 0, ok |-> FALSE, holds |-> FALSE,
              input |-> Render(bag, chain[entry][i]), joined |-> FALSE]]
    BY <1>6 DEF Select
  <2>2. group \subseteq DOMAIN chain[entry]
    OBVIOUS
  <2> HIDE DEF group
  <2>3. ASSUME NEW i \in group
        PROVE  /\ exec'[i] \in Call /\ exec'[i].pc = "new" /\ exec'[i].attempt = 0
               /\ exec'[i].input = Render(bag, chain[entry][i]) /\ exec'[i].joined = FALSE
    <3>1. chain[entry][i].reads \in SUBSET Var
      BY <1>1, <2>2 DEF Step
    <3>2. Render(bag, chain[entry][i]) \in [chain[entry][i].reads -> Value \cup {Missing}]
      BY <1>0, <3>1 DEF Render, TypeOK, Bag
    <3>3. Render(bag, chain[entry][i])
            \in UNION {[R -> Value \cup {Missing}] : R \in SUBSET Var}
      BY <3>1, <3>2
    <3>4. exec'[i] = [pc |-> "new", attempt |-> 0, ok |-> FALSE, holds |-> FALSE,
                      input |-> Render(bag, chain[entry][i]), joined |-> FALSE]
      BY <2>1
    <3> QED BY <3>3, <3>4 DEF Call
  <2>4. DOMAIN exec' = group /\ \A i : ToolOf(i)' = ToolOf(i)
    BY <1>0, <2>1 DEF ToolOf
  <2>5. GroupInv'
    <3>1. ASSUME NEW i \in DOMAIN exec'
          PROVE  /\ exec'[i] \in Call
                 /\ exec'[i].pc = "backoff" => exec'[i].attempt < MaxRetries[ToolOf(i)']
                 /\ exec'[i].pc = "new" /\ exec'[i].attempt = 0 /\ ~exec'[i].joined
                 /\ exec'[i].attempt <= MaxRetries[ToolOf(i)']
      <4>1. MaxRetries[ToolOf(i)'] \in Nat
        BY <1>1, <2>2, <2>4
      <4>2. exec'[i] \in Call /\ exec'[i].pc = "new" /\ exec'[i].attempt = 0 /\ ~exec'[i].joined
        BY <2>3, <2>4
      <4> QED BY <4>1, <4>2
    <3> QED BY <1>0, <2>1, <2>2, <2>4, <3>1 DEF GroupInv
  <2>6. TypeOK'
    <3>1. \A i \in DOMAIN exec' :
            /\ exec'[i].pc \in {"new", "calling", "backoff", "done"}
            /\ exec'[i].attempt \in 0..MaxRetries[ToolOf(i)']
            /\ {exec'[i].ok, exec'[i].holds, exec'[i].joined} \subseteq BOOLEAN
      <4> SUFFICES ASSUME NEW i \in DOMAIN exec'
                   PROVE  /\ exec'[i].pc \in {"new", "calling", "backoff", "done"}
                          /\ exec'[i].attempt \in 0..MaxRetries[ToolOf(i)']
                          /\ {exec'[i].ok, exec'[i].holds, exec'[i].joined} \subseteq BOOLEAN
        OBVIOUS
      <4>1. exec'[i] \in Call /\ exec'[i].attempt = 0 /\ MaxRetries[ToolOf(i)'] \in Nat
        BY <1>1, <2>2, <2>3, <2>4
      <4> QED BY <4>1 DEF Call
    <3> QED BY <1>0, <2>1, <3>1 DEF TypeOK
  <2>7. BagInv'
    BY <1>0, <2>1 DEF BagInv
  <2>8. GroupIsolated'
    <3> SUFFICES ASSUME NEW i \in group, NEW v \in chain[entry][i].reads,
                        exec'[i].input[v] # Missing
                 PROVE  exec'[i].input[v].by[1] < entry
      BY <1>0, <2>1, <2>4 DEF GroupIsolated
    <3>1. exec'[i].input[v] = bag[v] /\ v \in Var
      BY <1>1, <2>2, <2>3 DEF Render, Step
    <3> QED BY <3>1, <1>0 DEF BagInv
  <2>9. HistoryInv'
    BY <1>0, <1>2, <2>1 DEF HistoryInv, Reached, Joined, Reported, TypeOK, Steps
  <2>10. FailFastInv' /\ OrderInv'
    BY <1>0, <2>1 DEF FailFastInv, OrderInv, StepAt
  <2> QED BY <2>5, <2>6, <2>7, <2>8, <2>9, <2>10 DEF IInv
<1> QED BY <1>5, <1>6

\* The steps of the engine that change its place only.
LEMMA GatherInv == ASSUME IInv, Gather PROVE IInv'
<1>0. /\ TypeOK /\ GroupInv /\ BagInv /\ GroupIsolated /\ HistoryInv /\ FailFastInv /\ OrderInv
      /\ pc = "run" /\ pc' = "join" /\ \A i \in DOMAIN exec : exec[i].pc = "done"
      /\ UNCHANGED <<chain, bestEffort, registered, changes, entry, bag, failed, last, succeeded,
                     exec, calls, answered>>
  BY DEF IInv, Gather, setting
<1>1. TypeOK' /\ GroupInv' /\ GroupIsolated'
  BY <1>0 DEF TypeOK, GroupInv, GroupIsolated, ToolOf
<1>2. BagInv' /\ FailFastInv' /\ OrderInv'
  BY <1>0 DEF BagInv, FailFastInv, OrderInv, StepAt
<1>3. HistoryInv'
  BY <1>0 DEF HistoryInv, Reached, Joined, Reported, Steps
<1> QED BY <1>1, <1>2, <1>3 DEF IInv

LEMMA FinishInv == ASSUME IInv, Finish PROVE IInv'
<1>0. /\ TypeOK /\ GroupInv /\ BagInv /\ GroupIsolated /\ HistoryInv /\ FailFastInv /\ OrderInv
      /\ pc = "select" /\ pc' = "done" /\ DOMAIN exec = {}
      /\ UNCHANGED <<chain, bestEffort, registered, changes, entry, bag, failed, last, succeeded,
                     exec, calls, answered>>
  BY DEF IInv, Finish, setting, GroupInv
<1>1. TypeOK' /\ GroupInv' /\ GroupIsolated'
  BY <1>0 DEF TypeOK, GroupInv, GroupIsolated
<1>2. BagInv' /\ FailFastInv' /\ OrderInv'
  BY <1>0 DEF BagInv, FailFastInv, OrderInv, StepAt
<1>3. HistoryInv'
  BY <1>0 DEF HistoryInv, Reached, Joined, Reported, Steps
<1> QED BY <1>1, <1>2, <1>3 DEF IInv

LEMMA ChangeInv == ASSUME IInv, NEW t \in Tool, Change(t) PROVE IInv'
<1>0. /\ TypeOK /\ GroupInv /\ BagInv /\ GroupIsolated /\ HistoryInv /\ FailFastInv /\ OrderInv
      /\ UNCHANGED <<chain, bestEffort, pc, entry, bag, failed, last, succeeded, exec, calls,
                     answered>>
  BY DEF IInv, Change, run
<1>1. registered' \subseteq Tool /\ changes' \in 0..MaxChanges
  BY <1>0, ScenarioAssumption DEF Change, TypeOK
<1>2. TypeOK'
  BY <1>0, <1>1 DEF TypeOK, ToolOf
<1>3. GroupInv' /\ GroupIsolated' /\ BagInv' /\ FailFastInv' /\ OrderInv'
  BY <1>0 DEF GroupInv, GroupIsolated, ToolOf, BagInv, FailFastInv, OrderInv, StepAt, GroupFailed
<1>4. HistoryInv'
  BY <1>0 DEF HistoryInv, Reached, Joined, Reported, Steps
<1> QED BY <1>2, <1>3, <1>4 DEF IInv

\* A joined step stands before the next one to join.
LEMMA JoinedBefore ==
    ASSUME IInv, pc = "join", NEW i \in ToJoin, NEW p \in Places, Joined(p)
    PROVE  Before(p, Here(i)) /\ p # Here(i)
<1>1. /\ i \in DOMAIN exec /\ i \in Nat /\ ~exec[i].joined
      /\ \A j \in 1..(i - 1) \cap DOMAIN exec : exec[j].joined
  BY HereIs DEF IInv, GroupInv, ToJoin
<1>2. Here(i)[1] = entry /\ Here(i)[2] = i /\ entry \in Nat
  BY <1>1, HereIs, ChainIs DEF IInv, GroupInv
<1>3. CASE p[1] < entry
  BY <1>2, <1>3, PlaceIs DEF Before
<1>4. CASE p[1] = entry /\ p[2] \in DOMAIN exec /\ exec[p[2]].joined
  <2>1. p[2] \in Nat /\ p[2] # i /\ ~(i < p[2])
    BY <1>1, <1>4, PlaceIs DEF IInv, GroupInv
  <2> QED BY <1>1, <1>2, <1>4, <2>1 DEF Before
<1> QED BY <1>3, <1>4 DEF Joined

LEMMA JoinInv == ASSUME IInv, JoinNext PROVE IInv'
<1>0. /\ TypeOK /\ GroupInv /\ BagInv /\ GroupIsolated /\ HistoryInv /\ FailFastInv /\ OrderInv
      /\ pc = "join"
      /\ UNCHANGED <<pc, entry, chain, bestEffort, registered, changes, calls, answered>>
  BY DEF IInv, JoinNext, setting
<1>1. PICK i \in ToJoin : Join(i)
  BY DEF JoinNext
<1> DEFINE x == exec[i]
           step == chain[entry][i]
           h == Here(i)
<1>2. /\ entry \in DOMAIN chain /\ i \in DOMAIN exec /\ i \in DOMAIN chain[entry]
      /\ ~x.joined /\ x \in Call
      /\ \A j \in 1..(i - 1) \cap DOMAIN exec : exec[j].joined
  BY <1>0 DEF ToJoin, GroupInv
<1>3. /\ h \in Places /\ h \in Steps /\ h[1] = entry /\ h[2] = i /\ i \in Nat
      /\ StepAt(h) = step /\ step \in Step /\ entry \in Nat
  BY <1>0, <1>2, HereIs, ChainIs
<1>4. /\ exec' = [exec EXCEPT ![i].joined = TRUE]
      /\ IF x.ok /\ step.extract # Missing
         THEN bag' = [bag EXCEPT ![step.extract] = [by |-> h, holds |-> x.holds]]
         ELSE bag' = bag
      /\ last' = [at |-> h, ok |-> x.ok]
      /\ failed' = IF x.ok THEN failed ELSE Append(failed, h)
      /\ succeeded' = IF x.ok THEN succeeded \cup {h} ELSE succeeded
  BY <1>1 DEF Join
<1>5. /\ DOMAIN exec' = DOMAIN exec
      /\ \A j \in DOMAIN exec : j # i => exec'[j] = exec[j]
      /\ exec'[i] \in Call /\ exec'[i].joined = TRUE
      /\ \A j \in DOMAIN exec : /\ exec'[j].input = exec[j].input /\ exec'[j].ok = exec[j].ok
                                /\ exec'[j].pc = exec[j].pc /\ exec'[j].attempt = exec[j].attempt
                                /\ exec[j].joined => exec'[j].joined
  <2>1. exec'[i] = [x EXCEPT !.joined = TRUE] /\ \A j \in DOMAIN exec : j # i => exec'[j] = exec[j]
    BY <1>2, <1>4
  <2> HIDE DEF x
  <2>2. /\ exec'[i] \in Call /\ exec'[i].joined = TRUE /\ exec'[i].input = x.input
        /\ exec'[i].ok = x.ok /\ exec'[i].pc = x.pc /\ exec'[i].attempt = x.attempt
    BY <1>2, <2>1 DEF Call
  <2>3. DOMAIN exec' = DOMAIN exec
    BY <1>4
  <2> QED BY <2>1, <2>2, <2>3 DEF x
<1>6. x.ok \in BOOLEAN /\ x.holds \in BOOLEAN
  BY <1>2 DEF Call
<1>7. /\ \A p \in Places : Joined(p) => Before(p, h) /\ p # h
      /\ h' = h
  BY <1>0, JoinedBefore DEF Here
<1>8. \A p \in Places : p # h => p[1] # entry \/ p[2] # i
  BY PlaceIs DEF Here
<1> HIDE DEF x, step, h
<1>9. /\ failed' \in Seq(Places)
      /\ \A k \in DOMAIN failed : k \in DOMAIN failed' /\ failed'[k] = failed[k]
      /\ ~x.ok => \E k \in DOMAIN failed' : failed'[k] = h
      /\ \A k \in DOMAIN failed' :
           (k \in DOMAIN failed /\ failed'[k] = failed[k]) \/ (~x.ok /\ k = Len(failed) + 1 /\ failed'[k] = h)
      /\ DOMAIN failed = 1..Len(failed) /\ Len(failed) \in Nat
  <2>1. failed \in Seq(Places)
    BY <1>0 DEF TypeOK
  <2>2. CASE x.ok
    BY <2>1, <2>2, <1>4
  <2>3. CASE ~x.ok
    <3>1. failed' = Append(failed, h)
      BY <2>3, <1>4
    <3>2. /\ failed' \in Seq(Places) /\ Len(failed') = Len(failed) + 1
          /\ failed'[Len(failed) + 1] = h /\ DOMAIN failed' = 1..(Len(failed) + 1)
          /\ \A k \in 1..Len(failed) : failed'[k] = failed[k]
      BY <2>1, <3>1, <1>3
    <3> QED BY <2>1, <2>3, <3>2
  <2> QED BY <2>2, <2>3
<1>10. /\ bag' \in Bag
       /\ \A v \in Var : bag'[v] = bag[v] \/ bag'[v] = [by |-> h, holds |-> x.holds]
       /\ x.ok /\ step.extract # Missing => /\ step.extract \in Var
                                            /\ bag'[step.extract] = [by |-> h, holds |-> x.holds]
       /\ [by |-> h, holds |-> x.holds] \in Value /\ [by |-> h, holds |-> x.holds] # Missing
  <2>1. [by |-> h, holds |-> x.holds] \in Value
    BY <1>3, <1>6 DEF Value
  <2>2. step.extract \in Var \cup {Missing} /\ bag \in [Var -> Value \cup {Missing}]
    BY <1>0, <1>3 DEF Step, TypeOK, Bag
  <2> QED BY <2>1, <2>2, <1>4, ScenarioAssumption DEF Bag
<1>11. GroupInv'
  <2>1. \A j \in DOMAIN exec : MaxRetries[ToolOf(j)'] = MaxRetries[ToolOf(j)] /\ exec'[j] \in Call
    BY <1>0, <1>5 DEF ToolOf, GroupInv
  <2>2. ASSUME NEW a \in DOMAIN exec, NEW b \in DOMAIN exec, exec'[b].joined, a < b
        PROVE  exec'[a].joined
    <3>1. CASE a = i
      BY <3>1, <1>5
    <3>2. CASE a # i /\ b # i
      BY <3>2, <2>2, <1>0, <1>5 DEF GroupInv
    <3>3. CASE b = i
      <4>1. a \in Nat /\ a >= 1
        BY <1>0, <1>2, ChainIs DEF GroupInv
      <4>2. a \in 1..(i - 1)
        BY <4>1, <2>2, <3>3, <1>3
      <4> QED BY <4>2, <1>2, <1>5
    <3> QED BY <3>1, <3>2, <3>3
  <2> QED BY <1>0, <1>5, <2>1, <2>2 DEF GroupInv
<1>12. TypeOK'
  <2>1. \A j \in DOMAIN exec' :
          /\ exec'[j].pc \in {"new", "calling", "backoff", "done"}
          /\ exec'[j].attempt \in 0..MaxRetries[ToolOf(j)']
          /\ {exec'[j].ok, exec'[j].holds, exec'[j].joined} \subseteq BOOLEAN
    <3>1. \A j \in DOMAIN exec : ToolOf(j)' = ToolOf(j) /\ exec'[j] \in Call
      BY <1>0, <1>5, <1>11 DEF ToolOf, GroupInv
    <3>2. \A j \in DOMAIN exec : exec[j].attempt \in 0..MaxRetries[ToolOf(j)]
      BY <1>0 DEF TypeOK
    <3> QED BY <1>5, <3>1, <3>2 DEF Call
  <2>2. last' \in [at : Places \cup {<<0, 0>>}, ok : BOOLEAN]
    BY <1>3, <1>4, <1>6
  <2>3. succeeded' \subseteq Places
    BY <1>0, <1>3, <1>4 DEF TypeOK
  <2> QED BY <1>0, <1>9, <1>10, <2>1, <2>2, <2>3 DEF TypeOK
<1>13. BagInv'
  <2>1. [by |-> h, holds |-> x.holds].by[1] = entry
    BY <1>3
  <2>2. ASSUME NEW v \in Var, bag'[v] # Missing PROVE bag'[v].by[1] <= entry
    <3>1. CASE bag'[v] = bag[v]
      BY <2>2, <3>1, <1>0 DEF BagInv
    <3>2. CASE bag'[v] = [by |-> h, holds |-> x.holds]
      BY <3>2, <2>1, <1>3
    <3> QED BY <3>1, <3>2, <1>10
  <2> QED BY <2>2, <1>0 DEF BagInv
<1>14. GroupIsolated'
  BY <1>0, <1>5 DEF GroupIsolated
<1>15. HistoryInv'
  <2>1. \A p \in Places : /\ Reached(p) => Reached(p)'
                          /\ Joined(p) => Joined(p)'
                          /\ Reported(p) => Reported(p)'
    BY <1>0, <1>4, <1>5, <1>9 DEF Reached, Joined, Reported
  <2>2. Joined(h)' /\ Reported(h)'
    <3>1. Joined(h)'
      BY <1>0, <1>2, <1>3, <1>5, <1>7 DEF Joined
    <3>2. Reported(h)'
      BY <1>4, <1>7, <1>9 DEF Reported
    <3> QED BY <3>1, <3>2
  <2>3. ASSUME NEW p \in Places, calls[p] > 0
        PROVE  /\ Reached(p)'
               /\ Reported(p)' \/ (p[1] = entry /\ p[2] \in DOMAIN exec' /\ ~exec'[p[2]].joined)
    <3>1. CASE p = h
      <4>1. Reached(p) /\ Reported(p)'
        BY <2>2, <2>3, <3>1, <1>0, <1>3, <1>7 DEF HistoryInv, Reported
      <4> QED BY <2>1, <4>1
    <3>2. CASE p # h
      BY <2>1, <2>3, <3>2, <1>0, <1>5, <1>8 DEF HistoryInv
    <3> QED BY <3>1, <3>2
  <2>4. \A p \in answered : /\ Reached(p)'
                            /\ p[1] = entry /\ p[2] \in DOMAIN exec' => exec'[p[2]].pc = "done"
    BY <2>1, <1>0, <1>5 DEF HistoryInv, TypeOK
  <2>5. \A p \in succeeded' : p \in Steps' /\ Joined(p)'
    <3>1. \A p \in succeeded : p \in Places /\ p \in Steps' /\ Joined(p)'
      BY <2>1, <1>0 DEF HistoryInv, Steps
    <3>2. h \in Steps' /\ Joined(h)'
      BY <2>2, <1>0, <1>3 DEF Steps
    <3>3. \A p \in succeeded' : p \in succeeded \/ p = h
      BY <1>4
    <3> QED BY <3>1, <3>2, <3>3, <1>7 DEF Joined
  <2>6. \A k \in DOMAIN failed' : Joined(failed[k])'
    <3> SUFFICES ASSUME NEW k \in DOMAIN failed' PROVE Joined(failed[k])'
      OBVIOUS
    <3>1. CASE k \in DOMAIN failed /\ failed'[k] = failed[k]
      <4>1. failed[k] \in Places /\ Joined(failed[k])
        BY <3>1, <1>0 DEF HistoryInv, TypeOK
      <4> QED BY <4>1, <3>1, <1>0, <1>5 DEF Joined
    <3>2. CASE failed'[k] = h
      BY <3>2, <1>0, <1>2, <1>3, <1>5 DEF Joined
    <3> QED BY <3>1, <3>2, <1>9
  <2> QED BY <2>3, <2>4, <2>5, <2>6, <1>0 DEF HistoryInv
<1>16. FailFastInv'
  <2> SUFFICES ASSUME ~bestEffort, failed' # << >>
               PROVE  (\A k \in DOMAIN failed' : failed'[k][1] = entry) /\ GroupFailed'
    BY <1>0 DEF FailFastInv
  <2>1. CASE ~x.ok
    <3>1. GroupFailed'
      BY <2>1, <1>2, <1>5 DEF GroupFailed, x
    <3>2. \A k \in DOMAIN failed : failed[k][1] = entry
      BY <1>0, <1>9 DEF FailFastInv
    <3> QED BY <3>1, <3>2, <1>3, <1>9
  <2>2. CASE x.ok
    <3>1. failed' = failed /\ failed # << >>
      BY <2>2, <1>4
    <3>2. GroupFailed /\ \A k \in DOMAIN failed : failed[k][1] = entry
      BY <3>1, <1>0 DEF FailFastInv
    <3> QED BY <3>1, <3>2, <1>5 DEF GroupFailed
  <2> QED BY <2>1, <2>2
<1>17. OrderInv'
  <2>0. \A p : StepAt(p)' = StepAt(p)
    BY <1>0 DEF StepAt
  <2>1. ASSUME NEW p \in succeeded', StepAt(p).extract # Missing
        PROVE  /\ bag'[StepAt(p).extract] # Missing /\ bag'[StepAt(p).extract].by \in succeeded'
               /\ ~Before(bag'[StepAt(p).extract].by, p)
    <3> DEFINE v == StepAt(p).extract
    <3>1. CASE p = h
      <4>1. x.ok
        <5>1. h \notin succeeded
          BY <1>0, <1>3, <1>7 DEF HistoryInv
        <5> QED BY <5>1, <3>1, <1>4
      <4>2. bag'[v] = [by |-> h, holds |-> x.holds] /\ h \in succeeded'
        BY <4>1, <3>1, <2>1, <1>3, <1>4, <1>10
      <4>3. ~Before(h, h)
        BY <1>3 DEF Before
      <4> QED BY <4>2, <4>3, <3>1, <1>10
    <3>2. CASE p # h
      <4>1. p \in succeeded /\ p \in Places /\ p \in Steps /\ Joined(p)
        BY <3>2, <1>0, <1>4 DEF HistoryInv, TypeOK
      <4>2. v \in Var
        <5>1. p[1] \in DOMAIN chain /\ p[2] \in DOMAIN chain[p[1]]
          BY <4>1 DEF Steps
        <5>2. StepAt(p) \in Step
          BY <5>1, <1>0, ChainIs DEF StepAt
        <5> QED BY <5>2, <2>1 DEF Step
      <4>3. bag[v] # Missing /\ bag[v].by \in succeeded /\ ~Before(bag[v].by, p)
        BY <4>1, <2>1, <1>0 DEF OrderInv
      <4>4. CASE bag'[v] = bag[v]
        BY <4>3, <4>4, <1>4
      <4>5. CASE bag'[v] # bag[v]
        <5>1. bag'[v] = [by |-> h, holds |-> x.holds] /\ x.ok
          BY <4>2, <4>5, <1>4, <1>10
        <5>2. Before(p, h) /\ p[1] \in Nat /\ p[2] \in Nat
          BY <4>1, <1>7, PlaceIs
        <5>3. ~Before(h, p)
          BY <5>2, <1>3 DEF Before
        <5>4. h \in succeeded'
          BY <5>1, <1>4
        <5> QED BY <5>1, <5>3, <5>4, <1>10
      <4> QED BY <4>4, <4>5
    <3> QED BY <3>1, <3>2
  <2>2. ASSUME NEW j \in DOMAIN failed', NEW k \in DOMAIN failed', j < k
        PROVE  Before(failed'[j], failed'[k])
    <3>1. CASE k \in DOMAIN failed /\ failed'[k] = failed[k]
      <4>1. j \in DOMAIN failed /\ failed'[j] = failed[j]
        BY <2>2, <3>1, <1>9
      <4> QED BY <4>1, <3>1, <2>2, <1>0 DEF OrderInv
    <3>2. CASE k = Len(failed) + 1 /\ failed'[k] = h
      <4>1. j \in DOMAIN failed /\ failed'[j] = failed[j]
        BY <2>2, <3>2, <1>9
      <4>2. failed[j] \in Places /\ Joined(failed[j])
        BY <4>1, <1>0 DEF HistoryInv, TypeOK
      <4> QED BY <4>1, <4>2, <3>2, <1>7
    <3> QED BY <3>1, <3>2, <1>9
  <2> QED BY <2>0, <2>1, <2>2 DEF OrderInv
<1> QED BY <1>11, <1>12, <1>13, <1>14, <1>15, <1>16, <1>17 DEF IInv

LEMMA NextEntryInv == ASSUME IInv, NextEntry PROVE IInv'
<1>0. /\ TypeOK /\ GroupInv /\ BagInv /\ GroupIsolated /\ HistoryInv /\ FailFastInv /\ OrderInv
      /\ pc = "join" /\ \A i \in DOMAIN exec : exec[i].joined
      /\ exec' = << >> /\ DOMAIN exec' = {}
      /\ UNCHANGED <<chain, bestEffort, registered, changes, bag, failed, last, succeeded,
                     calls, answered>>
      /\ entry \in DOMAIN chain
  BY DEF IInv, NextEntry, setting, GroupInv
<1>1. /\ entry \in 1..Len(chain) /\ Len(chain) \in Nat /\ entry \in Nat
  BY <1>0, ChainIs
<1>2. \/ /\ GroupFailed /\ ~bestEffort /\ pc' = "done" /\ entry' = entry
      \/ /\ ~(GroupFailed /\ ~bestEffort) /\ pc' = "select" /\ entry' = entry + 1
  BY DEF NextEntry
<1>3. \A p \in Places : p[1] \in Nat /\ p[2] \in Nat
  BY PlaceIs
<1>4. TypeOK'
  <2>1. entry' \in 1..(Len(chain') + 1) /\ pc' \in {"select", "done"}
    BY <1>0, <1>1, <1>2
  <2> QED BY <1>0, <2>1 DEF TypeOK
<1>5. GroupInv' /\ GroupIsolated'
  BY <1>0, <1>2 DEF GroupInv, GroupIsolated
<1>6. BagInv'
  <2>1. \A v \in Var : bag[v] # Missing => bag[v].by[1] \in Nat
    <3>1. \A v \in Var : bag[v] # Missing => bag[v].by \in Places \cup {<<0, 0>>}
      BY <1>0 DEF TypeOK, Bag, Value
    <3> QED BY <3>1, <1>3
  <2> QED BY <1>0, <1>1, <1>2, <2>1 DEF BagInv
<1>7. \A p \in Places : (Reached(p) => Reached(p)') /\ (Joined(p) => Joined(p)')
  BY <1>0, <1>1, <1>2, <1>3 DEF Reached, Joined
<1>8. HistoryInv'
  <2>1. \A p \in Places : calls[p] > 0 => Reached(p)' /\ Reported(p)'
    BY <1>0, <1>7 DEF HistoryInv, Reported
  <2>2. \A p \in answered : Reached(p)'
    BY <1>0, <1>7 DEF HistoryInv, TypeOK
  <2>3. \A p \in succeeded : p \in Steps' /\ Joined(p)'
    BY <1>0, <1>7 DEF HistoryInv, TypeOK, Steps
  <2>4. \A k \in DOMAIN failed' : Joined(failed[k])'
    <3> SUFFICES ASSUME NEW k \in DOMAIN failed PROVE Joined(failed[k])'
      BY <1>0
    <3>1. failed[k] \in Places /\ Joined(failed[k]) /\ failed'[k] = failed[k]
      BY <1>0 DEF HistoryInv, TypeOK
    <3> QED BY <3>1, <1>7 DEF Joined
  <2> QED BY <1>0, <2>1, <2>2, <2>3, <2>4 DEF HistoryInv
<1>9. FailFastInv'
  BY <1>0, <1>2 DEF FailFastInv
<1>10. OrderInv'
  BY <1>0 DEF OrderInv, StepAt
<1> QED BY <1>4, <1>5, <1>6, <1>8, <1>9, <1>10 DEF IInv

LEMMA RaisedInv == ASSUME IInv, CallbackRaises PROVE IInv'
<1>0. /\ TypeOK /\ GroupInv /\ BagInv /\ GroupIsolated /\ HistoryInv /\ FailFastInv /\ OrderInv
      /\ pc \in {"run", "join"} /\ pc' = "raised" /\ exec' = << >> /\ DOMAIN exec' = {}
      /\ UNCHANGED <<chain, bestEffort, registered, changes, entry, bag, failed, succeeded,
                     calls, answered>>
  BY DEF IInv, CallbackRaises, setting
<1>1. /\ entry \in DOMAIN chain /\ DOMAIN exec \subseteq DOMAIN chain[entry]
  BY <1>0 DEF GroupInv
<1>2. last' \in [at : Places \cup {<<0, 0>>}, ok : BOOLEAN]
  <2>1. CASE last' = last
    BY <2>1, <1>0 DEF TypeOK
  <2>2. ASSUME NEW i \in ToJoin, last' = [at |-> Here(i), ok |-> FALSE]
        PROVE  last' \in [at : Places \cup {<<0, 0>>}, ok : BOOLEAN]
    <3>1. i \in DOMAIN chain[entry]
      BY <1>1 DEF ToJoin
    <3>2. Here(i) \in Places
      BY <3>1, <1>0, <1>1, HereIs
    <3> QED BY <2>2, <3>2
  <2> QED BY <2>1, <2>2 DEF CallbackRaises
<1>3. TypeOK'
  BY <1>0, <1>2 DEF TypeOK
<1>4. GroupInv' /\ GroupIsolated'
  BY <1>0 DEF GroupInv, GroupIsolated
<1>5. BagInv' /\ OrderInv'
  BY <1>0 DEF BagInv, OrderInv, StepAt
<1>6. \A p \in Places : (Reached(p) => Reached(p)') /\ (Joined(p) => Joined(p)')
  BY <1>0 DEF Reached, Joined
<1>7. HistoryInv'
  <2>1. ASSUME NEW p \in Places, calls'[p] > 0
        PROVE  Reached(p)' /\ (Reported(p)' \/ p[1] = entry')
    <3>1. Reached(p) /\ (Reported(p) \/ p[1] = entry)
      BY <2>1, <1>0 DEF HistoryInv
    <3> QED BY <3>1, <1>0, <1>6 DEF Reported
  <2>2. \A p \in answered : Reached(p)'
    BY <1>0, <1>6 DEF HistoryInv, TypeOK
  <2>3. \A p \in succeeded : p \in Steps' /\ Joined(p)'
    BY <1>0, <1>6 DEF HistoryInv, TypeOK, Steps
  <2>4. \A k \in DOMAIN failed' : Joined(failed[k])'
    <3> SUFFICES ASSUME NEW k \in DOMAIN failed PROVE Joined(failed[k])'
      BY <1>0
    <3>1. failed[k] \in Places /\ Joined(failed[k]) /\ failed'[k] = failed[k]
      BY <1>0 DEF HistoryInv, TypeOK
    <3> QED BY <3>1, <1>6 DEF Joined
  <2> QED BY <1>0, <2>1, <2>2, <2>3, <2>4 DEF HistoryInv
<1>8. FailFastInv'
  BY <1>0 DEF FailFastInv
<1> QED BY <1>3, <1>4, <1>5, <1>7, <1>8 DEF IInv

LEMMA StutterInv == ASSUME IInv, UNCHANGED vars PROVE IInv'
<1>1. UNCHANGED <<chain, bestEffort, registered, changes, pc, entry, bag, exec, failed, last,
                  calls, answered, succeeded>>
  BY DEF vars
<1>2. TypeOK' /\ GroupInv' /\ GroupIsolated' /\ BagInv'
  BY <1>1 DEF IInv, TypeOK, GroupInv, GroupIsolated, BagInv, ToolOf
<1>3. HistoryInv'
  BY <1>1 DEF IInv, HistoryInv, Reached, Joined, Reported, Steps
<1>4. FailFastInv' /\ OrderInv'
  BY <1>1 DEF IInv, FailFastInv, OrderInv, StepAt, GroupFailed
<1> QED BY <1>2, <1>3, <1>4 DEF IInv

LEMMA StepInv ==
    ASSUME IInv, [Next]_vars
    PROVE  IInv' /\ \A p \in answered : calls'[p] = calls[p]
<1>1. CASE Engine \/ CallbackRaises
  <2>1. calls' = calls
    BY <1>1 DEF Engine, Select, Gather, JoinNext, NextEntry, Finish, CallbackRaises
  <2> QED BY <1>1, <2>1, SelectInv, GatherInv, JoinInv, NextEntryInv, FinishInv, RaisedInv
             DEF Engine
<1>2. ASSUME NEW i \in DOMAIN exec, Executor(i)
      PROVE  IInv' /\ \A p \in answered : calls'[p] = calls[p]
  BY <1>2, CallStep
<1>3. ASSUME NEW t \in Tool, Change(t) PROVE IInv' /\ \A p \in answered : calls'[p] = calls[p]
  <2>1. calls' = calls
    BY <1>3 DEF Change
  <2> QED BY <1>3, <2>1, ChangeInv
<1>4. CASE UNCHANGED vars
  <2>1. calls' = calls
    BY <1>4 DEF vars
  <2> QED BY <1>4, <2>1, StutterInv
<1> QED BY <1>1, <1>2, <1>3, <1>4 DEF Next

LEMMA AlwaysIInv == Spec => []IInv
<1>1. IInv /\ [Next]_vars => IInv'
  BY StepInv
<1> QED BY <1>1, InitInv, PTL DEF Spec

-----------------------------------------------------------------------------
\* Type correctness of the run of a chain, for any chains, tools and retries.
THEOREM ChainTypeCorrect == Spec => []TypeOK
<1>1. IInv => TypeOK
  BY DEF IInv
<1> QED BY <1>1, AlwaysIInv, PTL

LEMMA ChainIsSound == IInv => ChainSound
<1> SUFFICES ASSUME IInv PROVE ChainSound
  OBVIOUS
<1>0. /\ TypeOK /\ GroupInv /\ BagInv /\ GroupIsolated /\ HistoryInv /\ FailFastInv /\ OrderInv
      /\ Steps \subseteq Places
  BY DEF IInv, Steps
<1>1. FailFastStops
  <2> SUFFICES ASSUME ~bestEffort, NEW k \in DOMAIN failed, NEW p \in Steps,
                      p[1] > failed[k][1]
               PROVE  calls[p] = 0
    BY DEF FailFastStops
  <2>1. failed # << >> /\ failed[k][1] = entry
    BY <1>0 DEF FailFastInv
  <2>2. p \in Places /\ p[1] \in Nat /\ entry \in Nat /\ calls[p] \in Nat
    BY <1>0, PlaceIs, ChainIs DEF TypeOK
  <2>3. ~Reached(p)
    BY <2>1, <2>2 DEF Reached
  <2> QED BY <1>0, <2>2, <2>3 DEF HistoryInv
<1>2. JoinedInOrder
  <2>1. pc = "done" => \A p \in Steps :
          calls[p] > 0 => p \in succeeded \/ \E k \in DOMAIN failed : failed[k] = p
    BY <1>0 DEF HistoryInv, Reported, GroupInv
  <2> QED BY <1>0, <2>1 DEF JoinedInOrder, OrderInv
<1> QED BY <1>0, <1>1, <1>2 DEF ChainSound

\* However the calls, retries and answers of a group interleave: no step sees the
\* output of another step of its group, under fail_fast no tool of a later entry is
\* called once a step has failed, and bag and failed_steps are what the order of the
\* chain makes them.
THEOREM AlwaysChainSound == Spec => []ChainSound
<1> QED BY ChainIsSound, AlwaysIInv, PTL

\* A tool that answered, with a result or with a failure, is never called again by
\* the same step: only what raised or timed out is retried.
THEOREM CalledUntilAnswered == Spec => AnsweredOnce
<1>1. IInv /\ [Next]_vars => [\A p \in answered : calls'[p] = calls[p]]_vars
  BY StepInv
<1> QED BY <1>1, AlwaysIInv, PTL DEF Spec, AnsweredOnce

==============================================================================
