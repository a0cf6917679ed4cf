--------------------------- MODULE MCAgentServices ---------------------------
(***************************************************************************)
(* Model checking of AgentServices: all texts have a word in common.  As a *)
(* behaviour is about one part, the parts share their model values: the k  *)
(* are queries or clients, the m documents, servers or roles, the n texts  *)
(* or tools, and each group is symmetric.                                  *)
(***************************************************************************)
EXTENDS AgentServices, TLC

SharedWords == Texts \X Texts
Calls == [cache |-> 3, knowledge |-> 4, servers |-> 4, subagents |-> 4, stream |-> 5]

Symmetry == Permutations(Threads) \cup Permutations(Queries) \cup Permutations(Ids)
                \cup Permutations(Texts)

=============================================================================
