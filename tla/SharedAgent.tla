------------------------------ MODULE SharedAgent ------------------------------
(***************************************************************************)
(* One agent and the threads that call its stores.  The FastAPI adapter    *)
(* runs every request in the one event loop of the application             *)
(* (web/fastapi_adapter.py): an operation without an await is not          *)
(* interrupted.  The Flask adapter runs each request in a thread of a pool,*)
(* with a loop of its own (web/flask_adapter.py), and serves the admin     *)
(* requests in further threads: operations on the cache and the knowledge  *)
(* base, which have no lock, interleave wherever a call or the end of a    *)
(* loop lets the interpreter change threads.  The MCP servers and the      *)
(* sub-agents of the agent live in one loop, as coroutines that suspend.   *)
(*                                                                         *)
(* The stream of one request under Flask joins two such loops.             *)
(*                                                                         *)
(* The parts of the agent that are composed here have no state in common,  *)
(* so a behaviour is about one of them.                                    *)
(***************************************************************************)
EXTENDS Integers, FiniteSets

CONSTANTS Threads,
          Parts,      \* the parts that are composed
          MaxCalls    \* bound on the operations that are called, of each part

ASSUME SharedAssumption == MaxCalls \in [Parts -> Nat]

\* The parts whose operations have no await.
NeverSuspend == {"cache", "knowledge"}

VARIABLES
    part,     \* the part of the agent that is looked at
    adapter,  \* the web adapter that serves the agent
    busy,     \* the threads that are in an operation
    calls     \* history: the operations called

sharedVars == <<part, adapter, busy, calls>>

SharedInit ==
    /\ part \in Parts
    /\ adapter \in {a \in {"fastapi", "flask"} :
                      /\ part = "stream" => a = "flask"
                      /\ a = "flask" => part = "stream" \/ part \in NeverSuspend}
    /\ busy = {}
    /\ calls = 0

\* The initial values S of a variable of part p, of which only x is there in other parts.
Initially(p, x, S) == IF part = p THEN S ELSE {x}

SharedTypeOK ==
    /\ part \in Parts
    /\ adapter \in {"fastapi", "flask"}
    /\ busy \subseteq Threads
    /\ calls \in 0..MaxCalls[part]

\* Thread t may call an operation of part p now.
MayCall(t, p) ==
    /\ part = p
    /\ calls < MaxCalls[p]
    /\ t \notin busy
    /\ p \in NeverSuspend /\ adapter = "fastapi" => busy = {}

\* It calls an operation that is one step, or one that takes several.
AtOnce(t, p) ==
    /\ MayCall(t, p)
    /\ calls' = calls + 1
    /\ UNCHANGED <<part, adapter, busy>>

Enter(t, p) ==
    /\ MayCall(t, p)
    /\ calls' = calls + 1
    /\ busy' = busy \cup {t}
    /\ UNCHANGED <<part, adapter>>

\* The operation of thread t returns or raises.
Leave(t) ==
    /\ busy' = busy \ {t}
    /\ UNCHANGED <<part, adapter, calls>>

Others(t) == busy \ {t}
=============================================================================
