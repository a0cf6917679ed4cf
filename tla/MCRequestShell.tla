--------------------------- MODULE MCRequestShell ---------------------------
(* Model checking of RequestShell with a hook of each kind.                *)
EXTENDS RequestShell, TLC

HookKind == [a |-> "python", b |-> "llm", c |-> "shell"]

Symmetry == Permutations(Stages \ KB) \cup Permutations(KB) \cup Permutations(Middlewares)

=============================================================================
