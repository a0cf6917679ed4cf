----------------------------- MODULE AgentServers -----------------------------
(***************************************************************************)
(* The MCP servers of an agent and its tool registry: coroutines of one    *)
(* loop bring servers up (register_mcp_server), others close all of them   *)
(* (shutdown_mcp_servers).  The loops that enter tools and that track a    *)
(* client do not suspend; the handshake, tools/list and close() do, and    *)
(* their task may be cancelled there.                                      *)
(*                                                                         *)
(* The dictionary _mcp_clients is the sequence of all its clients, those   *)
(* of a server together.  A shutdown iterates over the very lists, so it   *)
(* comes to a client that is appended to one of them before its end.       *)
(***************************************************************************)
EXTENDS SharedAgent, Sequences, SequencesExt

CONSTANTS Clients, Servers, Remotes,   \* Remotes: the names of tools on the servers
          MaxDescriptors               \* bound on the descriptors in a tools/list

ASSUME ServersAssumption == MaxDescriptors \in Nat

VARIABLES
    client,    \* the client of each registration
    tracked,   \* _mcp_clients
    registry,  \* tools and tool_categories of the tool registry
    sweep      \* the shutdown each task is in

serversVars == <<client, tracked, registry, sweep>>

Names == Servers \X Remotes
Categories == {"mcp", "local"}
NoTool == [client |-> "none", category |-> "none"]

ClientStates == [pc : {"unused", "shake", "list", "closing", "registered", "raised"},
                 server : Servers \cup {"none"},
                 open : BOOLEAN,      \* the transport was started and is not closed
                 left : {"no", "handshake", "cancelled", "malformed", "close", "cleared"}]
                                      \* history: why nobody is going to close it

Sweeps == [pc : {"idle", "dispatcher", "transport"},
           rest : Seq(Clients),       \* the clients to close, the first one now
           live : BOOLEAN,            \* its lists are those of the dictionary
           began : SUBSET Clients]    \* history: tracked when it was called

NoSweep == [pc |-> "idle", rest |-> << >>, live |-> FALSE, began |-> {}]

ServersInit ==
    /\ client = [c \in Clients |-> [pc |-> "unused", server |-> "none", open |-> FALSE,
                                    left |-> "no"]]
    /\ tracked = << >>
    /\ registry = [tools |-> [n \in Names |-> NoTool],
                   categories |-> [k \in Categories |-> << >>]]
    /\ sweep = [t \in Threads |-> NoSweep]

\* Mutant: the category keeps the name.
UnregisteredTool(r, n) == [r EXCEPT !.tools[n] = NoTool]

\* ToolRegistry.unregister and register.
Unregistered(r, n) ==
    IF r.tools[n] = NoTool THEN r
    ELSE [tools |-> [r.tools EXCEPT ![n] = NoTool],
          categories |-> [r.categories EXCEPT ![r.tools[n].category] = RemoveFirst(@, n)]]

Registered(r, n, tool) ==
    [tools |-> [r.tools EXCEPT ![n] = tool],
     categories |-> [r.categories EXCEPT ![tool.category] = Append(@, n)]]

\* The loop of register_mcp_server over the descriptors R of client c: a tool of the
\* same name is replaced, whoever registered it.
Entered(c, R) ==
    LET n(i) == <<client[c].server, R[i]>>
        entered[i \in 0..Len(R)] ==
            IF i = 0 THEN registry
            ELSE Registered(Unregistered(entered[i - 1], n(i)), n(i), [client |-> c, category |-> "mcp"])
    IN entered[Len(R)]

\* The list s with client c at the end of those of its server; none if there is none.
SameServer(c) == {d \in Clients : client[d].server = client[c].server}
Appended(s, c) ==
    LET last == SelectLastInSeq(s, LAMBDA d : d \in SameServer(c))
    IN IF last = 0 THEN s ELSE InsertAt(s, last + 1, c)

-----------------------------------------------------------------------------
InServers == part = "servers"
MayStart == InServers /\ calls < MaxCalls["servers"]

\* register_mcp_server: the transport starts, or raises with nothing started.
Connect(c, n, starts) ==
    /\ MayStart
    /\ client[c].pc = "unused"
    /\ client' = [client EXCEPT ![c] =
          IF starts THEN [@ EXCEPT !.pc = "shake", !.server = n, !.open = TRUE]
          ELSE [@ EXCEPT !.pc = "raised"]]
    /\ calls' = calls + 1
    /\ UNCHANGED <<part, adapter, busy, tracked, registry, sweep>>

At(c, pc) == InServers /\ client[c].pc = pc

\* The task of the registration of c goes on: to pc, with its transport open or not.
Moves(c, pc, open, left) ==
    /\ client' = [client EXCEPT ![c] = [@ EXCEPT !.pc = pc, !.open = open, !.left = left]]
    /\ UNCHANGED <<sharedVars, tracked, sweep>>

\* start() is not inside the try: a handshake that fails or is cancelled closes nothing.
Shaken(c) == At(c, "shake") /\ Moves(c, "list", TRUE, "no") /\ UNCHANGED registry
HandshakeFails(c) == At(c, "shake") /\ Moves(c, "raised", TRUE, "handshake") /\ UNCHANGED registry

\* tools/list raises: an Exception closes the client, a CancelledError does not.
ListFails(c) == At(c, "list") /\ Moves(c, "closing", TRUE, "no") /\ UNCHANGED registry
ListCancelled(c) == At(c, "list") /\ Moves(c, "raised", TRUE, "cancelled") /\ UNCHANGED registry

ClosedAfterList(c) == At(c, "closing") /\ Moves(c, "raised", FALSE, "no") /\ UNCHANGED registry
CloseAfterListFails(c) == At(c, "closing") /\ Moves(c, "raised", TRUE, "close") /\ UNCHANGED registry

\* Mutant: a new client takes the place of the others of its server.
ListedInstead(c, R) ==
    /\ At(c, "list")
    /\ registry' = Entered(c, R)
    /\ tracked' = Append(SelectSeq(tracked, LAMBDA d : d \notin SameServer(c)), c)
    /\ client' = [client EXCEPT ![c].pc = "registered"]
    /\ UNCHANGED <<sharedVars, sweep>>

\* tools/list answers, and the tools are entered and the client tracked.
Listed(c, R) ==
    /\ At(c, "list")
    /\ registry' = Entered(c, R)
    /\ tracked' = IF Appended(tracked, c) = tracked THEN Append(tracked, c) ELSE Appended(tracked, c)
    /\ sweep' = [t \in Threads |->
                    IF sweep[t].live THEN [sweep[t] EXCEPT !.rest = Appended(@, c)] ELSE sweep[t]]
    /\ client' = [client EXCEPT ![c].pc = "registered"]
    /\ UNCHANGED sharedVars

\* The descriptor after R has no name: KeyError, with the tools of R entered.
Malformed(c, R) ==
    /\ At(c, "list")
    /\ registry' = Entered(c, R)
    /\ Moves(c, "raised", TRUE, "malformed")

-----------------------------------------------------------------------------
\* The clients left to a shutdown from the first on that is not closed: close() of a
\* closed client does not suspend.
FromOpen(s, isOpen) ==
    LET opens == {i \in DOMAIN s : isOpen[s[i]]}
    IN IF opens = {} THEN << >>
       ELSE SubSeq(s, CHOOSE i \in opens : \A j \in opens : i <= j, Len(s))

IsOpen == [c \in Clients |-> client[c].open]

\* shutdown_mcp_servers is called; with nothing to close it only clears the dictionary.
Shutdown(t) ==
    /\ FromOpen(tracked, IsOpen) # << >>
    /\ Enter(t, "servers")
    /\ sweep' = [sweep EXCEPT ![t] = [pc |-> "dispatcher", began |-> ToSet(tracked), live |-> TRUE,
                                      rest |-> FromOpen(tracked, IsOpen)]]
    /\ UNCHANGED <<client, tracked, registry>>

ShutdownOfNone(t) ==
    /\ FromOpen(tracked, IsOpen) = << >>
    /\ AtOnce(t, "servers")
    /\ tracked' = << >>
    /\ sweep' = [u \in Threads |-> [sweep[u] EXCEPT !.live = FALSE]]
    /\ UNCHANGED <<client, registry>>

\* The shutdown of task t is done with a client, when the transports open are isOpen and
\* those in F failed to close; after the last client the dictionary is cleared.
NextClient(t, isOpen, F) ==
    LET rest == FromOpen(Tail(sweep[t].rest), isOpen)
        ends == rest = << >>
        dropped == IF ends THEN {c \in ToSet(tracked) \ sweep[t].began : isOpen[c]} ELSE {}
        why(c) == IF c \in F THEN "close"
                  ELSE IF c \in dropped /\ client[c].left = "no" THEN "cleared" ELSE client[c].left
    IN /\ client' = [c \in Clients |-> [client[c] EXCEPT !.open = isOpen[c], !.left = why(c)]]
       /\ tracked' = IF ends THEN << >> ELSE tracked
       /\ sweep' = [u \in Threads |->
              IF u # t THEN [sweep[u] EXCEPT !.live = @ /\ ~ends]
              ELSE IF ends THEN NoSweep
              ELSE [sweep[t] EXCEPT !.pc = "dispatcher", !.rest = rest]]
       /\ IF ends THEN Leave(t) ELSE UNCHANGED sharedVars
       /\ UNCHANGED registry

Closing(t, pc) == InServers /\ t \in busy /\ sweep[t].pc = pc

\* close(): the dispatcher has ended; a CancelledError is swallowed here.
Stopped(t) ==
    /\ Closing(t, "dispatcher")
    /\ LET c == Head(sweep[t].rest) IN
       IF client[c].open
       THEN /\ sweep' = [sweep EXCEPT ![t].pc = "transport"]
            /\ UNCHANGED <<sharedVars, client, tracked, registry>>
       ELSE NextClient(t, IsOpen, {})

\* The transport is closed.
Closed(t) ==
    /\ Closing(t, "transport")
    /\ NextClient(t, [IsOpen EXCEPT ![Head(sweep[t].rest)] = FALSE], {})

\* Closing it raises, which is logged.
CloseFails(t) ==
    /\ Closing(t, "transport")
    /\ NextClient(t, IsOpen, {Head(sweep[t].rest)})

\* Mutant: the dictionary is cleared in any case.
ShutdownCancelledClears(t) ==
    /\ Closing(t, "transport")
    /\ sweep' = [sweep EXCEPT ![t] = NoSweep]
    /\ tracked' = << >>
    /\ Leave(t)
    /\ UNCHANGED <<client, registry>>

\* The task of the shutdown is cancelled: what it tracks stays tracked.
ShutdownCancelled(t) ==
    /\ Closing(t, "transport")
    /\ sweep' = [sweep EXCEPT ![t] = NoSweep]
    /\ Leave(t)
    /\ UNCHANGED <<client, tracked, registry>>

\* register_tool raises on a name that is taken; a tool is unregistered by name.
RegisterTool(n) ==
    /\ MayStart
    /\ registry.tools[n] = NoTool
    /\ registry' = Registered(registry, n, [client |-> "none", category |-> "local"])
    /\ calls' = calls + 1
    /\ UNCHANGED <<part, adapter, busy, client, tracked, sweep>>

Unregister(n) ==
    /\ MayStart
    /\ registry' = Unregistered(registry, n)
    /\ calls' = calls + 1
    /\ UNCHANGED <<part, adapter, busy, client, tracked, sweep>>

Descriptors == SeqOf(Remotes, MaxDescriptors)

ServersNext ==
    \/ \E c \in Clients :
          \/ \E n \in Servers, starts \in BOOLEAN : Connect(c, n, starts)
          \/ Shaken(c) \/ HandshakeFails(c)
          \/ ListFails(c) \/ ListCancelled(c) \/ ClosedAfterList(c) \/ CloseAfterListFails(c)
          \/ \E R \in Descriptors : Listed(c, R) \/ Malformed(c, R)
    \/ \E t \in Threads :
          Shutdown(t) \/ ShutdownOfNone(t) \/ Stopped(t) \/ Closed(t) \/ CloseFails(t) \/ ShutdownCancelled(t)
    \/ \E n \in Names : RegisterTool(n) \/ Unregister(n)
=============================================================================
