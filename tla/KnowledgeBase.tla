---------------------------- MODULE KnowledgeBase ----------------------------
(***************************************************************************)
(* The knowledge base in memory (knowledge_base/memory.py): documents and  *)
(* an index of them that search() rebuilds when it is dirty.  Its methods  *)
(* never suspend, so in one event loop each is atomic; threads interleave  *)
(* in the middle of its loops.                                             *)
(*                                                                         *)
(* A dictionary is the sequence of its slots: a key keeps its slot, a new  *)
(* key gets the next one, and a deleted one leaves a hole.  An iterator is *)
(* a position, and raises when the number of keys is not what it was.      *)
(***************************************************************************)
EXTENDS SharedAgent, Sequences, FiniteSetsExt

CONSTANTS Ids, Texts,
          Near    \* the texts with a common word: {<<query, content>>, ...}

ASSUME KnowledgeAssumption == Near \subseteq Texts \X Texts /\ "none" \notin Ids

VARIABLES
    docs,     \* _documents
    index,    \* _doc_tf
    words,    \* _idf: the texts whose words it weighs
    dirty,    \* _dirty
    find,     \* what each thread in the knowledge base is doing
    suspect   \* history: a rebuild overlapped with another operation

knowledgeVars == <<docs, index, words, dirty, find, suspect>>

Slot == [id : Ids, text : Texts]
Hole == [id |-> "none", text |-> "none"]

Held == [id : Ids \cup {"none"}, text : Texts \cup {"none"}]

Finds == [pc : {"exact", "clear", "build", "enter", "built", "score", "written"},
          query : Texts \cup {"none"},
          at : Nat,                       \* the position of the iterator
          size : Nat,                     \* the number of keys it began with
          seen : SUBSET Texts,            \* what the rebuild has counted
          held : Held,                    \* the document it has in hand
          wrote : SUBSET Ids,             \* what it has written and not marked yet
          adds : BOOLEAN,                 \* it goes through a list of documents to add
          found : SUBSET Slot,
          before : SUBSET Slot,           \* history: there before the search and since
          during : SUBSET Slot,           \* history: there at some time of the search
          disturbed : BOOLEAN]            \* history: written by another thread meanwhile

NoFind == [pc |-> "exact", query |-> "none", at |-> 0, size |-> 0, seen |-> {}, held |-> Hole,
           wrote |-> {}, adds |-> FALSE, found |-> {}, before |-> {}, during |-> {}, disturbed |-> FALSE]

KnowledgeInit ==
    /\ docs \in Initially("knowledge", << >>, {<< >>} \cup {<<x>> : x \in Slot})
    /\ index = << >>
    /\ words = {}
    /\ dirty = TRUE
    /\ find = [t \in Threads |-> NoFind]
    /\ suspect = FALSE

Slots(s) == {s[i] : i \in DOMAIN s} \ {Hole}
Size(s) == Cardinality(Slots(s))
Has(s, id) == \E x \in Slots(s) : x.id = id

\* dict[id] = text.
Upsert(s, x) ==
    IF Has(s, x.id) THEN [i \in DOMAIN s |-> IF s[i].id = x.id THEN x ELSE s[i]]
    ELSE Append(s, x)

\* del dict[id], dict.pop(id, None).
Without(s, id) == [i \in DOMAIN s |-> IF s[i].id = id THEN Hole ELSE s[i]]

\* The positions an iterator at position i has still to visit.
Rest(s, i) == {j \in DOMAIN s : j > i /\ s[j] # Hole}

-----------------------------------------------------------------------------
Within(t, pc) == part = "knowledge" /\ t \in busy /\ find[t].pc = pc
Rebuilding(t) == \E pc \in {"clear", "build", "enter", "built"} : Within(t, pc)

\* The size the iterator of t checks, and the slot it comes to next.
Iterated(t) == IF find[t].pc = "score" THEN index ELSE docs
SameSize(t) == find[t].size = Size(Iterated(t))
AtEnd(t) == SameSize(t) /\ Rest(Iterated(t), find[t].at) = {}
Following(t) == Min(Rest(Iterated(t), find[t].at))
MayGoOn(t) == SameSize(t) /\ Rest(Iterated(t), find[t].at) # {}

\* An empty knowledge base answers at once.
Search(t, q) ==
    /\ Size(docs) > 0
    /\ Enter(t, "knowledge")
    /\ find' = [find EXCEPT ![t] =
          [NoFind EXCEPT !.query = q, !.size = Size(docs), !.during = Slots(docs),
                         !.before = {x \in Slots(docs) :
                             \A u \in Threads : x.id \notin find[u].wrote}]]
    /\ suspect' = (suspect \/ \E u \in Threads : Rebuilding(u))
    /\ UNCHANGED <<docs, index, words, dirty>>

\* Phase 1, one document.
Exact(t) ==
    /\ Within(t, "exact")
    /\ MayGoOn(t)
    /\ LET f == find[t]
           x == docs[Following(t)]
       IN find' = [find EXCEPT ![t] = [f EXCEPT !.at = Following(t),
                      !.found = IF x.text = f.query THEN @ \cup {x} ELSE @]]
    /\ UNCHANGED <<sharedVars, docs, index, words, dirty, suspect>>

\* Phase 2 begins, with a rebuild when the index is dirty.
ToIndex(t) ==
    /\ Within(t, "exact")
    /\ AtEnd(t)
    /\ find[t].found = {}
    /\ find' = [find EXCEPT ![t] = [@ EXCEPT !.pc = IF dirty THEN "clear" ELSE "score",
                                             !.at = 0, !.size = Size(index)]]
    /\ suspect' = (suspect \/ (dirty /\ Others(t) # {}))
    /\ UNCHANGED <<sharedVars, docs, index, words, dirty>>

\* _rebuild_index: the old index goes first.
ClearIndex(t) ==
    /\ Within(t, "clear")
    /\ index' = << >>
    /\ IF Size(docs) = 0
       THEN /\ words' = {} /\ dirty' = FALSE
            /\ find' = [find EXCEPT ![t] = [@ EXCEPT !.pc = "score", !.at = 0, !.size = 0]]
       ELSE /\ find' = [find EXCEPT ![t] = [@ EXCEPT !.pc = "build", !.at = 0, !.seen = {},
                                                      !.size = Size(docs)]]
            /\ UNCHANGED <<words, dirty>>
    /\ UNCHANGED <<sharedVars, docs, suspect>>

\* The loop takes a document, counts its words and enters it.
TakeNext(t) ==
    /\ Within(t, "build")
    /\ MayGoOn(t)
    /\ find' = [find EXCEPT ![t] = [@ EXCEPT !.pc = "enter", !.at = Following(t),
                                             !.held = docs[Following(t)]]]
    /\ UNCHANGED <<sharedVars, docs, index, words, dirty, suspect>>

IndexOne(t) ==
    /\ Within(t, "enter")
    /\ LET f == find[t]
       IN /\ index' = Upsert(index, f.held)
          /\ find' = [find EXCEPT ![t] = [f EXCEPT !.pc = "build", !.held = Hole,
                                                   !.seen = @ \cup {f.held.text}]]
    /\ UNCHANGED <<sharedVars, docs, words, dirty, suspect>>

LoopEnds(t) ==
    /\ Within(t, "build")
    /\ AtEnd(t)
    /\ find' = [find EXCEPT ![t].pc = "built"]
    /\ UNCHANGED <<sharedVars, docs, index, words, dirty, suspect>>

\* The weights of the words are replaced, and the index is not dirty any more.
Rebuilt(t) ==
    /\ Within(t, "built")
    /\ words' = find[t].seen
    /\ dirty' = FALSE
    /\ find' = [find EXCEPT ![t] = [@ EXCEPT !.pc = "score", !.at = 0, !.size = Size(index),
                                             !.seen = {}]]
    /\ UNCHANGED <<sharedVars, docs, index, suspect>>

\* May the score of content x for query q be positive?  A text that was not counted
\* still shares words with others.
Scores(q, x) ==
    IF <<q, x>> \notin Near THEN {FALSE} ELSE IF x \in words THEN {TRUE} ELSE BOOLEAN

\* Phase 2, one entry of the index; the document is looked up by its id.
Score(t) ==
    /\ Within(t, "score")
    /\ MayGoOn(t)
    /\ LET f == find[t]
           x == index[Following(t)]
       IN \E positive \in Scores(f.query, x.text) :
             /\ positive => Has(docs, x.id)
             /\ find' = [find EXCEPT ![t] = [f EXCEPT !.at = Following(t),
                    !.found = IF positive THEN @ \cup {y \in Slots(docs) : y.id = x.id} ELSE @]]
    /\ UNCHANGED <<sharedVars, docs, index, words, dirty, suspect>>

\* A search that is about to return, and one that is about to raise.
Final(t) ==
    \/ Within(t, "exact") /\ AtEnd(t) /\ find[t].found # {}
    \/ Within(t, "score") /\ AtEnd(t)
Raises(t) ==
    \/ (Within(t, "exact") \/ Within(t, "build") \/ Within(t, "score")) /\ ~SameSize(t)
    \/ /\ Within(t, "score") /\ MayGoOn(t)
       /\ LET x == index[Following(t)] IN TRUE \in Scores(find[t].query, x.text) /\ ~Has(docs, x.id)

\* search() returns, or raises: KeyError, or "dictionary changed size".
Found(t) ==
    /\ Final(t) \/ Raises(t)
    /\ Leave(t)
    /\ find' = [find EXCEPT ![t] = NoFind]
    /\ UNCHANGED <<docs, index, words, dirty, suspect>>

\* The searches of other threads see that documents change: now holds those of the id.
Seen(t, id, now) ==
    [u \in Threads |->
        IF u = t THEN [find[u] EXCEPT !.pc = "written", !.wrote = @ \cup {id}, !.adds = now # {}]
        ELSE IF u \notin busy \/ find[u].pc = "written" THEN find[u]
        ELSE [find[u] EXCEPT !.before = {x \in @ : x.id # id}, !.during = @ \cup now,
                             !.disturbed = TRUE]]

\* add_documents and delete_document: first the documents, then the flag.
Written(t, id, now) ==
    /\ find' = Seen(t, id, now)
    /\ suspect' = (suspect \/ \E u \in Threads : Rebuilding(u))
    /\ UNCHANGED <<words, dirty>>

\* A document of a list after the first: each is counted as a call.
GoesOn(t) ==
    /\ Within(t, "written")
    /\ find[t].adds
    /\ calls < MaxCalls[part]
    /\ calls' = calls + 1
    /\ UNCHANGED <<part, adapter, busy>>

Add(t, x) ==
    /\ Enter(t, "knowledge") \/ GoesOn(t)
    /\ docs' = Upsert(docs, x)
    /\ Written(t, x.id, {x})
    /\ UNCHANGED index

\* Mutant: the entry in the index is left to the next rebuild.
DeleteFromDocs(t, id) ==
    /\ Has(docs, id)
    /\ Enter(t, "knowledge")
    /\ docs' = Without(docs, id)
    /\ Written(t, id, {})
    /\ UNCHANGED index

Delete(t, id) ==
    /\ Has(docs, id)
    /\ Enter(t, "knowledge")
    /\ docs' = Without(docs, id)
    /\ index' = Without(index, id)
    /\ Written(t, id, {})

\* Mutant: the change does not make the index dirty.
MarkNothing(t) ==
    /\ Within(t, "written")
    /\ Leave(t)
    /\ find' = [find EXCEPT ![t] = NoFind]
    /\ suspect' = (suspect /\ Others(t) # {})
    /\ UNCHANGED <<docs, index, words, dirty>>

MarkDirty(t) ==
    /\ Within(t, "written")
    /\ dirty' = TRUE
    /\ Leave(t)
    /\ find' = [find EXCEPT ![t] = NoFind]
    /\ suspect' = (suspect /\ Others(t) # {})
    /\ UNCHANGED <<docs, index, words>>

KnowledgeNext ==
    \E t \in Threads :
       \/ \E q \in Texts : Search(t, q)
       \/ \E x \in Slot : Add(t, x)
       \/ \E id \in Ids : Delete(t, id)
       \/ Exact(t) \/ ToIndex(t) \/ ClearIndex(t) \/ TakeNext(t) \/ IndexOne(t)
       \/ LoopEnds(t) \/ Rebuilt(t) \/ Score(t) \/ Found(t) \/ MarkDirty(t)
=============================================================================
