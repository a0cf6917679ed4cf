------------------------------ MODULE Workspace ------------------------------
(***************************************************************************)
(* The workspaces of sessions (core/workspace.py) and what the agent keeps *)
(* in them: tool results too large for the prompt are written to a file    *)
(* (core/context_offload.py, Agent._context_safe), and workspace_read      *)
(* (tools/workspace_tool.py) brings them back chunk by chunk.  Meanwhile   *)
(* other code works in the same workspace under "async with                *)
(* agent.workspace(...)", and may clean it up when it leaves.              *)
(*                                                                         *)
(* The operations of both backends run without suspending; what interleaves *)
(* is a section of code that holds a workspace, the requests that offload  *)
(* and the model that reads.  A text is the sequence of its characters.    *)
(***************************************************************************)
EXTENDS Integers, Sequences, FiniteSets, FiniteSetsExt

CONSTANTS Sessions, Users, File,
          Dir,        \* the directories of the backend on disk
          Root,       \* its own, which contains the others
          Reach,      \* <<d, e>>: the path of e begins with the path of d
          Threshold,  \* context_offload_threshold
          Chunk,      \* context_offload_read_chunk_chars
          Lengths,    \* how long results are
          Offsets,    \* where the model begins to read
          MaxResults, \* bound on the results
          MaxEnters,  \* bound on the sections
          MaxWrites,  \* bound on the files they write
          NoText

ASSUME WorkspaceAssumption ==
    /\ Threshold \in Int /\ Chunk \in Nat \ {0} /\ Lengths \subseteq Nat /\ Offsets \subseteq Int
    /\ MaxResults \in Nat /\ MaxEnters \in Nat /\ MaxWrites \in Nat
    /\ NoText \notin Seq(Int \X Int)
    /\ IsFiniteSet(Sessions) /\ "none" \notin Sessions /\ IsFiniteSet(Users)
    /\ Root \in Dir /\ Reach \subseteq Dir \X Dir
    /\ \A d \in Dir : <<d, d>> \in Reach /\ <<Root, d>> \in Reach

VARIABLES
    backend,  \* "disk" or "memory"
    dir,      \* _safe_dir: two session ids may have one directory; '' and '.' have Root
    stores,   \* the directories, and the dictionaries ever made
    current,  \* _sessions of the backend in memory: the dictionary of a session
    dicts,    \* how many dictionaries were made
    handle,   \* the workspace each section holds
    results,  \* the large or small results, and what the prompt got of them
    reader,   \* the model that reads a result back
    kept,     \* history: what has been stored since the last clean-up
    enters, writes  \* history: sections begun, files written

vars == <<backend, dir, stores, current, dicts, handle, results, reader, kept, enters, writes>>
config == <<backend, dir>>
space == <<stores, current, dicts>>

Text == Seq(Int \X Int)
Path == ({"out"} \X (0..MaxResults)) \cup ({"file"} \X File)
Store == Dir \cup 1..(MaxEnters + Cardinality(Sessions))
Empty == [p \in Path |-> NoText]

Nobody == [session |-> "none", store |-> 0, cleanup |-> FALSE]
NotReading == [of |-> 0, from |-> 0, next |-> 0, text |-> << >>, pc |-> "idle"]

Init ==
    /\ backend \in {"disk", "memory"} /\ dir \in [Sessions -> Dir]
    /\ backend = "memory" => dir = [s \in Sessions |-> Root]  \* it has no directories
    /\ stores = [x \in Store |-> Empty]
    /\ current = [s \in Sessions |-> 0] /\ dicts = 0
    /\ handle = [u \in Users |-> Nobody]
    /\ results = << >> /\ reader = NotReading
    /\ kept = [s \in Sessions |-> Empty]
    /\ enters = 0 /\ writes = 0

\* The sessions whose workspace is x.
Owners(x) == {t \in Sessions : x = IF backend = "disk" THEN dir[t] ELSE current[t]}

\* kept after f was stored at p, or removed, in the workspaces of the sessions S.
Keep(S, p, f) ==
    [t \in Sessions |-> IF t \in S THEN [kept[t] EXCEPT ![p] = f] ELSE kept[t]]

-----------------------------------------------------------------------------
(* The backends.                                                           *)

\* Mutant: a session that is opened again gets a new dictionary.
OpensNew(s) == IF backend = "disk" THEN dir[s] ELSE dicts + 1

\* open: the directory of the session, or its dictionary, made when missing.
Opens(s) ==
    IF backend = "disk" THEN dir[s]
    ELSE IF current[s] = 0 THEN dicts + 1 ELSE current[s]

\* What open changes.
Opened(s) ==
    IF backend = "disk" THEN UNCHANGED <<current, dicts>>
    ELSE /\ current' = [current EXCEPT ![s] = Opens(s)]
         /\ dicts' = IF Opens(s) > dicts THEN Opens(s) ELSE dicts

\* The directories that are deleted with d.
Under(d) == IF d = Root THEN Dir ELSE {d}

\* Mutant: the root is deleted for the directory of the session.
CleanupOfRoot(s) ==
    /\ stores' = [x \in Store |-> IF x \in Dir THEN Empty ELSE stores[x]]
    /\ current' = IF backend = "memory" THEN [current EXCEPT ![s] = 0] ELSE current
    /\ kept' = [kept EXCEPT ![s] = Empty]
    /\ UNCHANGED dicts

\* cleanup: the directory is deleted with what is in it, except for what rmtree fails
\* on, which is ignored; the dictionary is forgotten, but who holds it goes on
\* writing into it.
Cleanup(s) ==
    LET below == IF backend = "disk" THEN Under(dir[s]) ELSE {}
    IN  /\ \E gone \in SUBSET below :
              stores' = [x \in Store |-> IF x \in gone THEN Empty ELSE stores[x]]
        /\ current' = IF backend = "memory" THEN [current EXCEPT ![s] = 0] ELSE current
        /\ kept' = [t \in Sessions |-> IF t = s \/ dir[t] \in below THEN Empty ELSE kept[t]]
        /\ UNCHANGED dicts

-----------------------------------------------------------------------------
(* A section of code in a workspace.                                       *)

Enter(u, s, cleanup) ==
    /\ handle[u] = Nobody /\ enters < MaxEnters
    /\ handle' = [handle EXCEPT ![u] = [session |-> s, store |-> Opens(s), cleanup |-> cleanup]]
    /\ Opened(s)
    /\ enters' = enters + 1
    /\ UNCHANGED <<config, stores, results, reader, kept, writes>>

\* path: where a section can write and remove.  A path may leave the directory for
\* one whose name only begins with its name, and from Root it leads to each.
Reachable(u) ==
    IF backend = "disk" THEN {x \in Dir : <<handle[u].store, x>> \in Reach}
    ELSE {handle[u].store}

\* write and remove, of a file of its own or of an offloaded one.
Change(u, x, p, f) ==
    /\ handle[u] # Nobody /\ x \in Reachable(u)
    /\ stores' = [stores EXCEPT ![x][p] = f]
    /\ kept' = Keep(Owners(x), p, f)
    /\ UNCHANGED <<config, current, dicts, handle, results, reader, enters>>

Write(u, x, f, len) ==
    /\ writes < MaxWrites /\ writes' = writes + 1
    /\ Change(u, x, <<"file", f>>, [i \in 1..len |-> <<-writes, i>>])

Remove(u, x, p) ==
    /\ stores[x][p] # NoText
    /\ Change(u, x, p, NoText)
    /\ UNCHANGED writes

\* The section ends, with or without an exception.
Exit(u) ==
    /\ handle[u] # Nobody
    /\ handle' = [handle EXCEPT ![u] = Nobody]
    /\ IF handle[u].cleanup THEN Cleanup(handle[u].session) ELSE UNCHANGED <<space, kept>>
    /\ UNCHANGED <<config, results, reader, enters, writes>>

-----------------------------------------------------------------------------
(* Offload and read-back.                                                  *)

\* Mutant: the name of the file is the kind of the result.
OffloadKeyOfKind(n) == <<"out", 0>>

\* offload_key: another name for each result.
OffloadKey(n) == <<"out", n>>

\* Mutant: the whole text, although it is large.
WholeText(text) == text

\* truncate_inline: the head of the text.
Truncated(text) == SubSeq(text, 1, Threshold)

Result(s, text, given) == Append(results, [session |-> s, text |-> text, given |-> given])

\* _context_safe.  A small result goes into the prompt as it is, of a large one
\* the reference to its file, or its head when the file cannot be written.
Offload(s, len) ==
    LET n    == Len(results) + 1
        text == [i \in 1..len |-> <<n, i>>]
    IN  /\ n <= MaxResults
        /\ \/ /\ Threshold <= 0 \/ len <= Threshold
              /\ results' = Result(s, text, "whole")
              /\ UNCHANGED <<space, kept>>
           \/ /\ Threshold > 0 /\ len > Threshold
              /\ Opened(s)
              /\ \/ /\ stores' = [stores EXCEPT ![Opens(s)][OffloadKey(n)] = text]
                    /\ kept' = Keep(Owners(Opens(s)) \cup {s}, OffloadKey(n), text)
                    /\ results' = Result(s, text, "reference")
                 \/ /\ results' = Result(s, Truncated(text), "head")
                    /\ UNCHANGED <<stores, kept>>
        /\ UNCHANGED <<config, handle, reader, enters, writes>>

\* The model begins to read a result it has the reference of, or to read another.
BeginRead(n, from) ==
    /\ results[n].given = "reference"
    /\ reader' = [of |-> n, from |-> from, next |-> from, text |-> << >>, pc |-> "reading"]
    /\ UNCHANGED <<config, space, handle, results, kept, enters, writes>>

\* Mutant: the hint counts itself.
AfterHint(offset, chunk) == offset + Len(chunk) + 1

\* The offset in the hint that follows a chunk: where to continue.
AfterChunk(offset, chunk) == offset + Len(chunk)

\* workspace_read: a negative offset is 0; the chunk, and a hint when there is
\* more.
ReadChunk ==
    LET s      == results[reader.of].session
        data   == stores[Opens(s)][OffloadKey(reader.of)]
        offset == Max({0, reader.next})
        chunk  == SubSeq(data, offset + 1, Min({offset + Chunk, Len(data)}))
    IN  /\ reader.pc = "reading"
        /\ Opened(s)
        /\ reader' =
              IF data = NoText THEN [reader EXCEPT !.pc = "missing"]
              ELSE [reader EXCEPT !.text = @ \o chunk,
                                  !.next = AfterChunk(offset, chunk),
                                  !.pc = IF offset + Len(chunk) < Len(data) THEN "reading" ELSE "end"]
        /\ UNCHANGED <<config, stores, handle, results, kept, enters, writes>>

Next ==
    \/ \E u \in Users :
          \/ \E s \in Sessions, cleanup \in BOOLEAN : Enter(u, s, cleanup)
          \/ \E x \in Store, f \in File, len \in Lengths : Write(u, x, f, len)
          \/ \E x \in Store, p \in Path : Remove(u, x, p)
          \/ Exit(u)
    \/ \E s \in Sessions, len \in Lengths : Offload(s, len)
    \/ \E n \in DOMAIN results, from \in Offsets : BeginRead(n, from)
    \/ ReadChunk

Spec == Init /\ [][Next]_vars

-----------------------------------------------------------------------------
TypeOK ==
    /\ backend \in {"disk", "memory"} /\ dir \in [Sessions -> Dir]
    /\ stores \in [Store -> [Path -> Text \cup {NoText}]]
    /\ current \in [Sessions -> 0..dicts] /\ dicts \in Nat
    /\ handle \in [Users -> [session : Sessions, store : Store, cleanup : BOOLEAN] \cup {Nobody}]
    /\ results \in Seq([session : Sessions, text : Text, given : {"whole", "reference", "head"}])
    /\ reader \in [of : 0..MaxResults, from : Int, next : Int, text : Text,
                   pc : {"idle", "reading", "end", "missing"}]
    /\ kept \in [Sessions -> [Path -> Text \cup {NoText}]]
    /\ enters \in 0..MaxEnters /\ writes \in 0..MaxWrites
    /\ Threshold > 0 => \A n \in DOMAIN results :
         results[n].given # "reference" => Len(results[n].text) <= Threshold

\* What the next open of the workspace finds.
Found(s) ==
    IF backend = "disk" THEN stores[dir[s]]
    ELSE IF current[s] = 0 THEN Empty ELSE stores[current[s]]

\* A workspace that is opened again holds what was stored in it, offloaded results and
\* files of sections, whoever opens, writes, removes and leaves meanwhile, until it is
\* cleaned up, or the file is stored again or removed.  In memory only the session
\* itself does either.  On disk a session does it to another one too, when they have
\* one directory, when its own is the root, or, file by file, when its name is the
\* beginning of the other's; sessions of which nothing of this holds are isolated.
\* Only what a section stores in a dictionary it held across a clean-up is lost.
Kept ==
    \A s \in Sessions : \A p \in Path : kept[s][p] # NoText => Found(s)[p] = kept[s][p]

\* A model that follows the offsets of the hints reads an offloaded result from
\* where it began to its end, character by character, without a gap, a
\* repetition or another result's text, although the workspace changes between
\* its calls; and it is told that there is no file only when the workspace was
\* cleaned up or the file removed.
ReadBack ==
    LET whole == results[reader.of].text
        start == Max({0, reader.from})
    IN  /\ reader.pc \in {"reading", "end"} =>
             reader.text = SubSeq(whole, start + 1, Max({0, reader.next}))
        /\ reader.pc = "end" => Len(reader.text) = Max({0, Len(whole) - start})
        /\ reader.pc = "missing" =>
             kept[results[reader.of].session][OffloadKey(reader.of)] = NoText

=============================================================================
