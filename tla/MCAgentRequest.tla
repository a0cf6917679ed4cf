--------------------------- MODULE MCAgentRequest ---------------------------
(* Model checking of AgentRequest: requests and users are interchangeable.   *)
EXTENDS AgentRequest, TLC

Symmetry == Permutations(Requests) \cup Permutations(User)

=============================================================================
