------------------------------- MODULE SubAgents -------------------------------
(***************************************************************************)
(* Sub-agents (core/subagent.py): dispatch() runs one child task for each  *)
(* request under asyncio.gather(return_exceptions=False); a child runs the *)
(* handler of its role with a timeout and turns what goes wrong into a     *)
(* result with success=False.                                              *)
(*                                                                         *)
(* One dispatch is looked at: several share nothing but the roles, which   *)
(* change at any time here.  The handlers are code of the user, or         *)
(* default_subagent_handler, which calls a model.                          *)
(***************************************************************************)
EXTENDS SharedAgent, Sequences, SequencesExt

CONSTANTS Roles, MaxRequests    \* bound on the requests of a dispatch

ASSUME SubAgentsAssumption == MaxRequests \in Nat

VARIABLES
    roles,      \* _roles: the names registered
    handlers,   \* _handlers: the names with a handler of their own
    forgotten,  \* history: the names unregistered since a handler was given
    fanout      \* the dispatch

subAgentsVars == <<roles, handlers, forgotten, fanout>>

\* A result: what the handler returned, or a failure with its error.
Outcomes == {"none", "its own", "nothing", "unknown", "timeout", "error"}

Kids == [role : Roles,
         pc : {"queued", "running", "ended", "crashed", "cancelled"},
         handler : {"none", "own", "default"},
         stop : {"no", "timeout", "cancel"},    \* why its handler was cancelled
         outcome : Outcomes]

Fanouts == [pc : {"idle", "gathering", "returned", "raised", "cancelled"},
            kids : Seq(Kids),
            asked : BOOLEAN]     \* the caller was cancelled, and asked gather to cancel

NoFanout == [pc |-> "idle", kids |-> << >>, asked |-> FALSE]

SubAgentsInit ==
    /\ roles \in Initially("subagents", {}, SUBSET Roles)
    /\ handlers \in SUBSET roles
    /\ forgotten = {}
    /\ fanout = NoFanout

-----------------------------------------------------------------------------
InSubAgents == part = "subagents"
MayChange == InSubAgents /\ calls < MaxCalls["subagents"]
Counted == calls' = calls + 1 /\ UNCHANGED <<part, adapter, busy>>

\* register_role: without a handler, that of the role of this name before stays.
RegisterRole(r, own) ==
    /\ MayChange
    /\ roles' = roles \cup {r}
    /\ handlers' = IF own THEN handlers \cup {r} ELSE handlers
    /\ forgotten' = IF own THEN forgotten \ {r} ELSE forgotten
    /\ Counted
    /\ UNCHANGED fanout

\* Mutant: the handler stays.
UnregisterRoleOnly(r) ==
    /\ MayChange
    /\ roles' = roles \ {r}
    /\ forgotten' = forgotten \cup {r}
    /\ Counted
    /\ UNCHANGED <<handlers, fanout>>

UnregisterRole(r) ==
    /\ MayChange
    /\ roles' = roles \ {r}
    /\ handlers' = handlers \ {r}
    /\ forgotten' = forgotten \cup {r}
    /\ Counted
    /\ UNCHANGED fanout

NewKid(r) == [role |-> r, pc |-> "queued", handler |-> "none", stop |-> "no", outcome |-> "none"]

\* dispatch(): the children are created and start in this order; nothing is asked of
\* an empty list, which returns at once.
Dispatch(rs) ==
    /\ MayChange
    /\ fanout.pc = "idle"
    /\ fanout' = [pc |-> IF rs = << >> THEN "returned" ELSE "gathering", asked |-> FALSE,
                  kids |-> [i \in DOMAIN rs |-> NewKid(rs[i])]]
    /\ Counted
    /\ UNCHANGED <<roles, handlers, forgotten>>

Over(k) == k.pc \in {"ended", "crashed", "cancelled"}

\* Mutant: the dispatch is over with its first child.
GathersFirst(i, k) ==
    /\ fanout' = [fanout EXCEPT !.kids[i] = k,
                               !.pc = IF @ = "gathering" /\ Over(k) THEN "returned" ELSE @]
    /\ UNCHANGED <<sharedVars, roles, handlers, forgotten>>

\* gather's callback, when child i is now k: the first child that raised or was
\* cancelled ends the dispatch, and so does the last one; the others are not stopped.
Gathers(i, k) ==
    LET kids == [fanout.kids EXCEPT ![i] = k]
        pc == IF fanout.pc # "gathering" THEN fanout.pc
              ELSE CASE k.pc = "crashed" -> "raised"
                     [] k.pc = "cancelled" -> IF fanout.asked THEN "cancelled" ELSE "raised"
                     [] k.pc = "ended" /\ (\A j \in DOMAIN kids : Over(kids[j])) ->
                          IF fanout.asked THEN "cancelled" ELSE "returned"
                     [] OTHER -> "gathering"
    IN /\ fanout' = [fanout EXCEPT !.kids = kids, !.pc = pc]
       /\ UNCHANGED <<sharedVars, roles, handlers, forgotten>>

Kid(i) == fanout.kids[i]
IsKid(i, pc) == InSubAgents /\ i \in DOMAIN fanout.kids /\ Kid(i).pc = pc
Ends(i, outcome) == Gathers(i, [NewKid(Kid(i).role) EXCEPT !.pc = "ended", !.outcome = outcome])

\* _dispatch_one begins: the role and its handler are looked up now.
StartKid(i) ==
    /\ IsKid(i, "queued")
    /\ \A j \in 1..i - 1 : Kid(j).pc # "queued"
    /\ LET r == Kid(i).role
           handler == IF r \in handlers THEN "own" ELSE "default"
       IN IF Kid(i).stop = "cancel" THEN Gathers(i, [Kid(i) EXCEPT !.pc = "cancelled", !.handler = "none"])
          ELSE IF r \notin roles THEN Ends(i, "unknown")
          ELSE Gathers(i, [Kid(i) EXCEPT !.pc = "running", !.handler = handler])

\* The handler returns a result, of success or not, also after it was cancelled.
HandlerReturns(i) ==
    /\ IsKid(i, "running")
    /\ Kid(i).stop # "no" => Kid(i).handler = "own"
    /\ Ends(i, "its own")

\* Mutant: what the handler raises is not caught.
HandlerRaisesOn(i) ==
    IsKid(i, "running") /\ Gathers(i, [Kid(i) EXCEPT !.pc = "crashed", !.outcome = "error"])

\* It raises an Exception.
HandlerRaises(i) == IsKid(i, "running") /\ Ends(i, "error")

\* It returns nothing, and result.duration_ms raises outside of the try.
HandlerReturnsNone(i) ==
    /\ IsKid(i, "running")
    /\ Kid(i).handler = "own"
    /\ Gathers(i, [Kid(i) EXCEPT !.pc = "crashed", !.outcome = "nothing"])

\* A CancelledError of its own, of something the handler or the model awaits, is not
\* an Exception either.
HandlerCancels(i) ==
    /\ IsKid(i, "running")
    /\ Kid(i).stop = "no"
    /\ Gathers(i, [Kid(i) EXCEPT !.pc = "cancelled", !.handler = "none"])

\* wait_for cancels the handler at its timeout, and waits for it to end.
Expire(i) ==
    /\ IsKid(i, "running")
    /\ Kid(i).stop = "no"
    /\ Gathers(i, [Kid(i) EXCEPT !.stop = "timeout"])

HandlerStops(i) ==
    /\ IsKid(i, "running")
    /\ Kid(i).stop # "no"
    /\ IF Kid(i).stop = "timeout" THEN Ends(i, "timeout")
       ELSE Gathers(i, [Kid(i) EXCEPT !.pc = "cancelled", !.handler = "none"])

\* The caller is cancelled: gather cancels the children that are not done.
CancelDispatch ==
    /\ InSubAgents
    /\ fanout.pc = "gathering" /\ ~fanout.asked
    /\ fanout' = [fanout EXCEPT !.asked = TRUE,
          !.kids = [i \in DOMAIN @ |-> IF Over(@[i]) THEN @[i] ELSE [@[i] EXCEPT !.stop = "cancel"]]]
    /\ UNCHANGED <<sharedVars, roles, handlers, forgotten>>

\* The task goes on to something else when its children are over.
Returns ==
    /\ InSubAgents
    /\ fanout.pc \in {"returned", "raised", "cancelled"}
    /\ \A i \in DOMAIN fanout.kids : Over(Kid(i))
    /\ fanout' = NoFanout
    /\ UNCHANGED <<sharedVars, roles, handlers, forgotten>>

Requests == SeqOf(Roles, MaxRequests)

SubAgentsNext ==
    \/ \E r \in Roles : UnregisterRole(r) \/ \E own \in BOOLEAN : RegisterRole(r, own)
    \/ \E rs \in Requests : Dispatch(rs)
    \/ CancelDispatch \/ Returns
    \/ \E i \in 1..MaxRequests :
          \/ StartKid(i) \/ HandlerReturns(i) \/ HandlerRaises(i) \/ HandlerReturnsNone(i)
          \/ HandlerCancels(i) \/ Expire(i) \/ HandlerStops(i)
=============================================================================
