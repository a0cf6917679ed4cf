----------------------------- MODULE CacheManager -----------------------------
(***************************************************************************)
(* The cache of an agent (core/cache.py): level 1, a dictionary of level 2 *)
(* per user and the scenario cache, with a time to live by the clock of    *)
(* the machine and a limit, and level 3, the variables of a session, with  *)
(* neither.  Nothing is locked: an operation looks first and then deletes. *)
(* A look at one level is a step, and so is a deletion.                    *)
(*                                                                         *)
(* A dictionary is the sequence of its entries in the order of insertion.  *)
(* The clock of the machine may be set back (datetime.now() is local time).*)
(***************************************************************************)
EXTENDS SharedAgent, Sequences, SequencesExt

CONSTANTS Users, Queries,
          MaxEntries,     \* max_entries_per_level
          Ttls,           \* the times to live in use
          CleanupPeriod,  \* query() cleans up at every hundredth access
          MaxTime,        \* bound on the ticks of the clock
          MaxBack         \* bound on how far the clock is set back

ASSUME CacheAssumption ==
    /\ MaxEntries \in Nat /\ Ttls \subseteq Nat /\ MaxTime \in Nat /\ MaxBack \in Nat
    /\ CleanupPeriod \in Nat \ {0} /\ Users \cap {"level_1", "level_3", "scenario", "users", "none"} = {}

VARIABLES
    level,    \* the dictionaries of all levels
    users,    \* the users level 2 has a dictionary of
    access,   \* _access_count modulo its period
    clock,    \* the clock of the machine
    look,     \* what each thread in the cache is doing
    back,     \* history: how far the clock was set back
    failed    \* history: the operations that raised

cacheVars == <<level, users, access, clock, look, back, failed>>

Never == -1
Timed == {"level_1", "scenario"} \cup Users
Dicts == Timed \cup {"level_3"}
AllTimed == <<"level_1", "users", "scenario">>   \* what clear_expired goes through

Entry == [key : Queries, made : Int, ttl : Ttls \cup {Never},
          born : Nat]        \* history: the time that has really passed

Looks == [pc : {"look", "find", "list", "pick", "check", "store", "evict", "sort", "drop",
                 "purge", "unlist"},
          key : Queries \cup {"none"},
          todo : Seq(Dicts),  \* the levels still to be asked
          scans : Seq(Timed \cup {"users"}),    \* the dictionaries still to be cleaned
          at : Dicts \cup {"none"},
          put : BOOLEAN,                       \* it stores an entry
          size : Nat,                          \* the length when it began to list
          doomed : Seq(Entry),                 \* the entries it is about to delete
          raced : BOOLEAN]                     \* history: others changed the dictionary since

NoLook == [pc |-> "look", key |-> "none", todo |-> << >>, scans |-> << >>, at |-> "none",
           put |-> FALSE, size |-> 0, doomed |-> << >>, raced |-> FALSE]

CacheInit ==
    /\ level = [d \in Dicts |-> << >>]
    /\ users = {}
    /\ access = 0
    /\ clock = 0
    /\ look = [t \in Threads |-> NoLook]
    /\ back = 0
    /\ failed = 0

Expired(e) == e.ttl # Never /\ clock > e.made + e.ttl

Keys(s) == {s[i].key : i \in DOMAIN s}
EntryOf(s, q) == s[CHOOSE i \in DOMAIN s : s[i].key = q]
WithoutKey(s, q) == RemoveAt(s, CHOOSE i \in DOMAIN s : s[i].key = q)

\* dict[key] = entry: a key that is there keeps its place.
Stored(s, e) ==
    IF e.key \in Keys(s) THEN [i \in DOMAIN s |-> IF s[i].key = e.key THEN e ELSE s[i]]
    ELSE Append(s, e)

\* The place of k among K in the order of the relation R on K, and what is at the places K
\* of s, in this order (by counting: what SortSeq builds could not be proved about).
Rank(k, K, R) == 1 + Cardinality({j \in K : <<j, k>> \in R})
Ranked(s, K, R) == [n \in 1..Cardinality(K) |-> s[CHOOSE k \in K : Rank(k, K, R) = n]]

\* [e for e in s if e is at one of the places K].
Picked(s, K) == Ranked(s, K, {p \in K \X K : p[1] < p[2]})

\* Mutant: sorted in reverse.
Newest(s, excess) ==
    LET all == DOMAIN s
        newer == {p \in all \X all : \/ s[p[1]].made > s[p[2]].made
                                     \/ s[p[1]].made = s[p[2]].made /\ p[1] < p[2]}
        n == IF excess < 0 THEN Len(s) + excess ELSE excess
    IN [i \in (1..n) \cap all |-> Ranked(s, all, newer)[i]]

\* sorted(..., key=created_at), which is stable, cut to excess as a slice is.
Oldest(s, excess) ==
    LET all == DOMAIN s
        older == {p \in all \X all : \/ s[p[1]].made < s[p[2]].made
                                     \/ s[p[1]].made = s[p[2]].made /\ p[1] < p[2]}
        n == IF excess < 0 THEN Len(s) + excess ELSE excess
    IN [i \in (1..n) \cap all |-> Ranked(s, all, older)[i]]

-----------------------------------------------------------------------------
InCache(t, pc) == part = "cache" /\ t \in busy /\ look[t].pc = pc

\* What the threads are doing when t goes on with job and has changed D.
Now(t, job, D) ==
    [u \in Threads |-> IF u = t THEN job
                       ELSE IF look[u].at \in D THEN [look[u] EXCEPT !.raced = TRUE]
                       ELSE look[u]]

\* The same when the dictionaries of the users in D are taken away: a thread that is
\* evicting from one of them has the old dictionary in hand.
WithoutDicts(D) ==
    [u \in Threads |-> IF look[u].put /\ look[u].at \in D \cap Users
                       THEN [NoLook EXCEPT !.pc = "drop"]
                       ELSE IF look[u].at \in D THEN [look[u] EXCEPT !.raced = TRUE]
                       ELSE look[u]]

Begin(t, job) ==
    /\ Enter(t, "cache")
    /\ look' = [look EXCEPT ![t] = job]

\* Mutant: the count of accesses is compared with the period and never reset.
QueryCounts(t, u, q) ==
    /\ access' = access + 1
    /\ Begin(t, [NoLook EXCEPT !.key = q, !.todo = <<"level_1", u, "level_3">>,
                               !.scans = IF access' = CleanupPeriod THEN AllTimed ELSE << >>])
    /\ UNCHANGED <<level, users, clock, back, failed>>

\* query(): the periodic cleanup comes first.
Query(t, u, q) ==
    /\ access' = (access + 1) % CleanupPeriod
    /\ Begin(t, [NoLook EXCEPT !.key = q, !.todo = <<"level_1", u, "level_3">>,
                               !.scans = IF access' = 0 THEN AllTimed ELSE << >>])
    /\ UNCHANGED <<level, users, clock, back, failed>>

GetScenarioCache(t, q) ==
    /\ Begin(t, [NoLook EXCEPT !.key = q, !.todo = <<"scenario">>])
    /\ UNCHANGED <<level, users, access, clock, back, failed>>

ClearExpired(t) ==
    /\ Begin(t, [NoLook EXCEPT !.scans = AllTimed])
    /\ UNCHANGED <<level, users, access, clock, back, failed>>

\* clear_scenario_cache(scenario): the keys K of a scenario are listed, and deleted.
ClearScenario(t) ==
    /\ Begin(t, [NoLook EXCEPT !.pc = "pick", !.at = "scenario", !.size = Len(level["scenario"])])
    /\ UNCHANGED <<level, users, access, clock, back, failed>>

PickScenario(t, K) ==
    /\ InCache(t, "pick")
    /\ Len(level["scenario"]) = look[t].size
    /\ look' = [look EXCEPT ![t] = [@ EXCEPT !.pc = "drop", !.size = 0,
                    !.doomed = LET s == level["scenario"] IN
                               Picked(s, {i \in DOMAIN s : s[i].key \in K})]]
    /\ UNCHANGED <<sharedVars, level, users, access, clock, back, failed>>

NewEntry(q, ttl) ==
    [key |-> q, made |-> clock, ttl |-> ttl, born |-> clock + back]

StoreIn(t, d, q, ttl) ==
    /\ look' = Now(t, [NoLook EXCEPT !.pc = "evict", !.at = d, !.put = TRUE], {d})
    /\ level' = [level EXCEPT ![d] = Stored(@, NewEntry(q, ttl))]
    /\ UNCHANGED <<users, access, clock, back, failed>>

\* set_level_1 and set_scenario_cache.
Put(t, d, q, ttl) ==
    /\ Enter(t, "cache")
    /\ StoreIn(t, d, q, ttl)

\* set_level_2: the user gets a dictionary, and what is stored in it comes after the key
\* was hashed.
PutUser(t, u, q) ==
    /\ Begin(t, [NoLook EXCEPT !.pc = "store", !.key = q, !.at = u])
    /\ users' = users \cup {u}
    /\ UNCHANGED <<level, access, clock, back, failed>>

StoreUser(t, ttl) ==
    /\ InCache(t, "store")
    /\ look[t].at \in users
    /\ StoreIn(t, look[t].at, look[t].key, ttl)
    /\ UNCHANGED sharedVars

SetLevel3(t, q) ==
    /\ AtOnce(t, "cache")
    /\ level' = [level EXCEPT !["level_3"] = Stored(@, NewEntry(q, Never))]
    /\ look' = Now(t, look[t], {"level_3"})
    /\ UNCHANGED <<users, access, clock, back, failed>>

Done(t) ==
    /\ Leave(t)
    /\ look' = [look EXCEPT ![t] = NoLook]

\* clear_expired, one dictionary: what is expired is listed, and then deleted.
Scan(t) ==
    /\ InCache(t, "look")
    /\ look[t].scans # << >>
    /\ LET f == look[t]
           d == Head(f.scans)
       IN /\ d \in Timed /\ (d \in Users => d \in users)
          /\ look' = [look EXCEPT ![t] = [f EXCEPT !.pc = "list", !.at = d, !.scans = Tail(f.scans),
                                                   !.size = Len(level[d]), !.raced = FALSE]]
    /\ UNCHANGED <<sharedVars, level, users, access, clock, back, failed>>

\* list(self.level_2_cache.keys()), after level 1.
ListUsers(t) ==
    /\ InCache(t, "look")
    /\ look[t].scans # << >> /\ Head(look[t].scans) = "users"
    /\ look' = [look EXCEPT ![t].scans = SetToSeq(users) \o Tail(@)]
    /\ UNCHANGED <<sharedVars, level, users, access, clock, back, failed>>

ListExpired(t) ==
    /\ InCache(t, "list")
    /\ Len(level[look[t].at]) = look[t].size
    /\ look' = [look EXCEPT ![t] = [@ EXCEPT !.pc = "purge", !.size = 0,
                    !.doomed = LET s == level[look[t].at] IN
                               Picked(s, {i \in DOMAIN s : Expired(s[i])})]]
    /\ UNCHANGED <<sharedVars, level, users, access, clock, back, failed>>

\* Mutant: as many entries as before the new one may stay.
ListKeysLate(t) ==
    /\ InCache(t, "evict")
    /\ LET s == level[look[t].at]
           over == MaxEntries > 0 /\ Len(s) - 1 > MaxEntries
       IN look' = [look EXCEPT ![t] = [@ EXCEPT !.pc = IF over THEN "sort" ELSE "drop",
                                                !.doomed = IF over THEN s ELSE << >>,
                                                !.raced = FALSE]]
    /\ UNCHANGED <<sharedVars, level, users, access, clock, back, failed>>

\* _evict_oldest: the keys are listed when there are too many, and sorted.
ListKeys(t) ==
    /\ InCache(t, "evict")
    /\ LET s == level[look[t].at]
           over == MaxEntries > 0 /\ Len(s) > MaxEntries
       IN look' = [look EXCEPT ![t] = [@ EXCEPT !.pc = IF over THEN "sort" ELSE "drop",
                                                !.doomed = IF over THEN s ELSE << >>,
                                                !.raced = FALSE]]
    /\ UNCHANGED <<sharedVars, level, users, access, clock, back, failed>>

EvictOldest(t) ==
    /\ InCache(t, "sort")
    /\ LET f == look[t] IN
       look' = [look EXCEPT ![t] = [f EXCEPT !.pc = "drop",
                    !.doomed = Oldest(f.doomed, Len(level[f.at]) - MaxEntries)]]
    /\ UNCHANGED <<sharedVars, level, users, access, clock, back, failed>>

\* del dict[key], for the next key of those found before.
Drop(t) ==
    /\ InCache(t, "drop") \/ InCache(t, "purge")
    /\ look[t].doomed # << >>
    /\ LET d == look[t].at
           q == Head(look[t].doomed).key
       IN /\ q \in Keys(level[d])
          /\ level' = [level EXCEPT ![d] = WithoutKey(@, q)]
          /\ look' = Now(t, [look[t] EXCEPT !.doomed = Tail(@)], {d})
    /\ UNCHANGED <<sharedVars, users, access, clock, back, failed>>

\* All are deleted; clear_expired also takes the dictionary of a user away when it
\* finds it empty.
Dropped(t) ==
    /\ InCache(t, "drop") \/ (InCache(t, "purge") /\ look[t].at \notin Users \ users)
    /\ look[t].doomed = << >>
    /\ look' = [look EXCEPT ![t] =
          IF @.pc = "purge" /\ @.at \in Users /\ level[@.at] = << >>
          THEN [@ EXCEPT !.pc = "unlist", !.raced = FALSE]
          ELSE [@ EXCEPT !.pc = "look", !.at = "none", !.raced = FALSE]]
    /\ UNCHANGED <<sharedVars, level, users, access, clock, back, failed>>

Unlist(t) ==
    /\ InCache(t, "unlist")
    /\ look[t].at \in users
    /\ LET u == look[t].at IN
       /\ users' = users \ {u}
       /\ level' = [level EXCEPT ![u] = << >>]
       /\ look' = [WithoutDicts({u}) EXCEPT ![t] = [look[t] EXCEPT !.pc = "look", !.at = "none",
                                                                  !.raced = FALSE]]
    /\ UNCHANGED <<sharedVars, access, clock, back, failed>>

\* A key or a user is gone (KeyError, in the sort only if the key was not asked for its
\* time before), or the dictionary changed its size while it was listed (RuntimeError).
Fail(t) ==
    /\ LET s == level[look[t].at]
           gone == Head(look[t].doomed).key \notin Keys(s)
       IN \/ (InCache(t, "drop") \/ InCache(t, "purge")) /\ look[t].doomed # << >> /\ gone
          \/ InCache(t, "sort") /\ ~(Keys(look[t].doomed) \subseteq Keys(s))
          \/ (InCache(t, "list") \/ InCache(t, "pick")) /\ Len(s) # look[t].size
          \/ (InCache(t, "purge") \/ InCache(t, "unlist")) /\ look[t].at \in Users \ users
          \/ (InCache(t, "find") \/ InCache(t, "store")) /\ look[t].at \notin users
          \/ InCache(t, "look") /\ look[t].scans # << >> /\ Head(look[t].scans) \in Users \ users
    /\ Done(t)
    /\ failed' = failed + 1
    /\ UNCHANGED <<level, users, access, clock, back>>

\* Is there an entry in the dictionary d?
Asked(t, d, todo) ==
    LET f == look[t]
        there == f.key \in Keys(level[d])
    IN look' = [look EXCEPT ![t] =
          [f EXCEPT !.todo = todo, !.at = IF there THEN d ELSE "none", !.raced = FALSE,
                    !.pc = IF there THEN "check" ELSE "look",
                    !.doomed = IF there THEN <<EntryOf(level[d], f.key)>> ELSE << >>]]

\* _query_level_1 and _query_level_3, get_scenario_cache; a user without a dictionary.
Look(t) ==
    /\ InCache(t, "look")
    /\ look[t].scans = << >>
    /\ look[t].todo # << >>
    /\ Head(look[t].todo) \notin users
    /\ Asked(t, Head(look[t].todo), Tail(look[t].todo))
    /\ UNCHANGED <<sharedVars, level, users, access, clock, back, failed>>

\* _query_level_2: the user has a dictionary, which is asked after the key was hashed.
LookUser(t) ==
    /\ InCache(t, "look")
    /\ look[t].scans = << >>
    /\ look[t].todo # << >>
    /\ Head(look[t].todo) \in users
    /\ look' = [look EXCEPT ![t] = [@ EXCEPT !.pc = "find", !.at = Head(look[t].todo),
                                            !.todo = Tail(look[t].todo)]]
    /\ UNCHANGED <<sharedVars, level, users, access, clock, back, failed>>

FindUser(t) ==
    /\ InCache(t, "find")
    /\ look[t].at \in users
    /\ Asked(t, look[t].at, look[t].todo)
    /\ UNCHANGED <<sharedVars, level, users, access, clock, back, failed>>

\* Mutant: an entry that was found is served.
ServeFound(t) ==
    /\ InCache(t, "check")
    /\ Done(t)
    /\ UNCHANGED <<level, users, access, clock, back, failed>>

\* is_expired: the entry is served, or deleted and the next level asked.
Serve(t) ==
    /\ InCache(t, "check")
    /\ ~Expired(Head(look[t].doomed))
    /\ Done(t)
    /\ UNCHANGED <<level, users, access, clock, back, failed>>

Stale(t) ==
    /\ InCache(t, "check")
    /\ Expired(Head(look[t].doomed))
    /\ look' = [look EXCEPT ![t].pc = "drop"]
    /\ UNCHANGED <<sharedVars, level, users, access, clock, back, failed>>

\* The end of an operation that neither served an entry nor raised.
Finish(t) ==
    /\ InCache(t, "look")
    /\ look[t].scans = << >> /\ look[t].todo = << >>
    /\ Done(t)
    /\ UNCHANGED <<level, users, access, clock, back, failed>>

\* clear_all, clear_user_cache, clear_session_cache, a level that the admin clears.
Clear(t, D) ==
    /\ AtOnce(t, "cache")
    /\ level' = [d \in Dicts |-> IF d \in D THEN << >> ELSE level[d]]
    /\ users' = users \ D
    /\ look' = WithoutDicts(D)
    /\ UNCHANGED <<access, clock, back, failed>>

Clearings == {Dicts, Users} \cup {{d} : d \in Dicts}

Tick ==
    /\ clock + back < MaxTime
    /\ clock' = clock + 1
    /\ UNCHANGED <<sharedVars, level, users, access, look, back, failed>>

SetBack ==
    /\ back < MaxBack
    /\ clock' = clock - 1
    /\ back' = back + 1
    /\ UNCHANGED <<sharedVars, level, users, access, look, failed>>

CacheNext ==
    \/ \E t \in Threads :
          \/ \E q \in Queries : GetScenarioCache(t, q) \/ \E u \in Users : Query(t, u, q)
          \/ \E d \in {"level_1", "scenario"}, q \in Queries, ttl \in Ttls : Put(t, d, q, ttl)
          \/ \E u \in Users, q \in Queries : PutUser(t, u, q)
          \/ \E ttl \in Ttls : StoreUser(t, ttl)
          \/ ClearScenario(t) \/ \E K \in SUBSET Queries : PickScenario(t, K)
          \/ \E D \in Clearings : Clear(t, D)
          \/ \E q \in Queries : SetLevel3(t, q)
          \/ ClearExpired(t) \/ Scan(t) \/ ListUsers(t) \/ ListExpired(t) \/ ListKeys(t) \/ EvictOldest(t)
          \/ Drop(t) \/ Dropped(t) \/ Unlist(t) \/ Fail(t) \/ Look(t)
          \/ LookUser(t) \/ FindUser(t) \/ Serve(t) \/ Stale(t) \/ Finish(t)
    \/ Tick \/ SetBack
=============================================================================
