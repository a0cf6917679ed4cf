----------------------------- MODULE RemoteCalls -----------------------------
(***************************************************************************)
(* What a caller of an MCP server may rely on (providers/mcp): a call gets *)
(* one outcome, and it succeeds only if the server has executed, and       *)
(* answered, that very call.  A call that failed may have been executed,   *)
(* or be executed later; how often, is up to the server.                   *)
(***************************************************************************)
CONSTANT Request

VARIABLES told,      \* what the caller of each request knows of it
          executed   \* the requests the server has executed and answered

Init == told = [r \in Request |-> "unused"] /\ executed = {}

Issue(r) ==
    /\ told[r] = "unused"
    /\ told' = [told EXCEPT ![r] = "open"]
    /\ UNCHANGED executed

Execute(r) ==
    /\ told[r] # "unused"
    /\ r \notin executed
    /\ executed' = executed \cup {r}
    /\ UNCHANGED told

Succeed(r) ==
    /\ told[r] = "open"
    /\ r \in executed
    /\ told' = [told EXCEPT ![r] = "ok"]
    /\ UNCHANGED executed

Fail(r) ==
    /\ told[r] = "open"
    /\ told' = [told EXCEPT ![r] = "failed"]
    /\ UNCHANGED executed

Next == \E r \in Request : Issue(r) \/ Execute(r) \/ Succeed(r) \/ Fail(r)

Spec == Init /\ [][Next]_<<told, executed>>

=============================================================================
