----------------------------- MODULE AgentServices -----------------------------
(***************************************************************************)
(* What an agent keeps besides the requests: its cache and its knowledge   *)
(* base under the requests and the admin service, in one event loop or in  *)
(* threads, its MCP servers with the tool registry, its sub-agents, and    *)
(* the stream of a request whose run has a thread of its own.              *)
(***************************************************************************)
EXTENDS CacheManager, KnowledgeBase, AgentServers, SubAgents, FlaskStream

vars == <<sharedVars, cacheVars, knowledgeVars, serversVars, subAgentsVars, flaskVars>>

Init == SharedInit /\ CacheInit /\ KnowledgeInit /\ ServersInit /\ SubAgentsInit /\ FlaskInit

Next ==
    \/ CacheNext /\ UNCHANGED <<knowledgeVars, serversVars, subAgentsVars, flaskVars>>
    \/ KnowledgeNext /\ UNCHANGED <<cacheVars, serversVars, subAgentsVars, flaskVars>>
    \/ ServersNext /\ UNCHANGED <<cacheVars, knowledgeVars, subAgentsVars, flaskVars>>
    \/ SubAgentsNext /\ UNCHANGED <<cacheVars, knowledgeVars, serversVars, flaskVars>>
    \/ FlaskNext /\ UNCHANGED <<cacheVars, knowledgeVars, serversVars, subAgentsVars>>

Spec == Init /\ [][Next]_vars

-----------------------------------------------------------------------------
\* Every variable has its type; a thread does what it says in one store at a time.
TypeOK ==
    /\ SharedTypeOK
    /\ level \in [Dicts -> Seq(Entry)]
    /\ users \subseteq Users
    /\ access \in 0..CleanupPeriod - 1
    /\ clock \in -MaxBack..MaxTime
    /\ look \in [Threads -> Looks]
    /\ back \in 0..MaxBack /\ failed \in Nat
    /\ docs \in Seq(Slot \cup {Hole}) /\ index \in Seq(Slot \cup {Hole})
    /\ words \subseteq Texts /\ dirty \in BOOLEAN /\ suspect \in BOOLEAN
    /\ find \in [Threads -> Finds]
    /\ client \in [Clients -> ClientStates]
    /\ tracked \in Seq(Clients)
    /\ registry.tools \in [Names -> [client : Clients \cup {"none"}, category : Categories \cup {"none"}]]
    /\ registry.categories \in [Categories -> Seq(Names)]
    /\ sweep \in [Threads -> Sweeps]
    /\ roles \subseteq Roles /\ handlers \subseteq Roles /\ forgotten \subseteq Roles
    /\ fanout \in Fanouts
    /\ queue \in Seq(End..MaxCalls[part]) /\ Len(queue) <= QueueSize
    /\ owner \in {"none", "run", "generator"} /\ sender \in Senders
    /\ reader \in {"asks", "bind", "waits", "ended", "broken", "gone"}
    /\ got \in Seq(ErrorEvent..MaxCalls[part]) /\ filled \in BOOLEAN

\* _evict_oldest keeps every level within its limit: what is above it are entries
\* whose thread is still evicting, or whose eviction raised because another thread
\* had deleted the same entry.  In one event loop no operation raises, so a level is
\* above its limit by at most the entry that is being stored.
LevelsBounded ==
    /\ MaxEntries > 0 =>
          \A d \in Timed : Len(level[d]) <= MaxEntries + failed
              + Cardinality({t \in Threads : t \in busy /\ look[t].put /\ look[t].at = d})
    /\ adapter = "fastapi" => failed = 0

\* The deletions of clear_scenario_cache, which takes entries of any age.
Clears(f) == f.pc = "drop" /\ f.at = "scenario" /\ ~f.put /\ f.key = "none"

\* An entry that a thread deletes, other than by a clear_ call, was expired, or nothing
\* older is left in its level (by the time that really passed, unless the clock was set
\* back), or another thread changed the level after this one had listed it: then a fresh
\* entry may be lost.  In the same way a user whose dictionary is taken away as empty may
\* lose an entry.
LosesOnlyOld ==
    \A t \in Threads :
       /\ Drop(t) /\ ~Clears(look[t]) =>
             LET d == look[t].at
                 e == EntryOf(level[d], Head(look[t].doomed).key)
             IN \/ Expired(e)
                \/ look[t].raced
                \/ back > 0 \/ \A j \in DOMAIN level'[d] : level'[d][j].born >= e.born
       /\ Unlist(t) => level[look[t].at] = << >> \/ look[t].raced

\* An entry is not served after its time to live has passed, but for the time by which the
\* clock was set back.
ServedFresh ==
    \A t \in Threads : Serve(t) =>
          LET e == Head(look[t].doomed) IN
          e.ttl # Never => clock + back - e.born <= e.ttl + back

\* No step of the cache loses or serves what it should not, or lets a level grow.
CacheSound == [][LosesOnlyOld /\ ServedFresh /\ LevelsBounded']_vars

\* What a search has found was a document of the knowledge base while it ran.
FoundReal == \A t \in Threads : find[t].found \subseteq find[t].during

\* A search finds every document that was there before it and is not touched by others
\* while it runs (before it keeps the best top_k), and does not raise, unless a rebuild
\* of the index overlapped with another thread since the last undisturbed change.
SearchComplete ==
    \A t \in Threads : Final(t) /\ ~suspect =>
       LET f == find[t]
           exact == {x \in f.before : x.text = f.query}
       IN /\ exact \subseteq f.found
          /\ (\A x \in f.found : x.text # f.query) =>
                {x \in f.before : <<f.query, x.text>> \in Near} \subseteq f.found
SearchAnswers == \A t \in Threads : Raises(t) => find[t].disturbed \/ suspect

SearchSound == FoundReal /\ SearchComplete /\ SearchAnswers

-----------------------------------------------------------------------------
\* No server is left running: a transport that is open when its registration is over is
\* tracked, or it is one of those nobody closes: its handshake failed, tools/list was
\* cancelled or had a descriptor without a name, closing it raised, or it was registered
\* while a shutdown ran, whose end cleared it away.  A shutdown so closes all that is
\* tracked when it is called, and one that is cancelled loses nothing.
NoLeak ==
    \A c \in Clients : client[c].open /\ client[c].pc \in {"registered", "raised"} =>
       c \in ToSet(tracked) \/ client[c].left # "no"

\* The tools and the categories of the registry say the same, each tool once, however
\* often a server is registered again; an MCP tool is one of a client of its server whose
\* tools were listed.
RegistrySound ==
    /\ \A k \in Categories :
          /\ IsInjective(registry.categories[k])
          /\ ToSet(registry.categories[k]) = {n \in Names : registry.tools[n].category = k}
    /\ \A n \in Names : registry.tools[n].category = "mcp" =>
          LET c == client[registry.tools[n].client] IN
          c.server = n[1] /\ (c.pc = "registered" \/ c.left = "malformed")

\* What the agent has of its servers is what runs: no leak, and a sound registry.
ServersKept == NoLeak /\ RegistrySound

\* A sub-agent that fails, times out or has no role fails alone: the dispatch raises only
\* when a handler returned nothing or was cancelled from within, it cancels its children
\* only when it is cancelled itself, and when it returns no handler is still running.
\* A role that was unregistered does not come back with the handler it had.
DispatchContained ==
    LET kids == ToSet(fanout.kids) IN
    /\ fanout.pc = "returned" => \A k \in kids : k.pc = "ended" /\ k.outcome # "none"
    /\ fanout.pc = "raised" =>
          \E k \in kids : k.outcome = "nothing" \/ (k.pc = "cancelled" /\ k.stop = "no")
    /\ fanout.pc = "cancelled" \/ (\E k \in kids : k.stop = "cancel") => fanout.asked
    /\ handlers \subseteq roles \ forgotten

-----------------------------------------------------------------------------
\* Under Flask the client receives what the run sent, in order and without a gap, and an
\* error of the run at most once, as the last.
ReceivedInOrder ==
    \A i \in DOMAIN got : got[i] = i \/ (got[i] = ErrorEvent /\ i = Len(got))

\* A stream that has come to its end was finished, and nothing of it is left.
EndIsLast == reader = "ended" => sender.end = "finished" /\ queue = << >>

\* The two loops never wait for each other.  Unless the queue was once found full the
\* generator does not break, no put is refused, and a run that finishes is received
\* whole, its end included, by a client that stays.
BreaksOnlyFull ==
    /\ ~(sender.pc = "wait" /\ reader = "waits")
    /\ ~filled => /\ reader # "broken" /\ sender.end # "refused" /\ ~sender.closed
                  /\ sender.end = "finished" =>
                        LET all == ToSet(got \o queue)
                        IN /\ 1..calls \subseteq all
                           /\ sender.failing => ErrorEvent \in all
                           /\ reader \in {"asks", "bind", "waits"} =>
                                 queue # << >> /\ Last(queue) = End

FlaskDelivered == ReceivedInOrder /\ EndIsLast /\ BreaksOnlyFull
=============================================================================
