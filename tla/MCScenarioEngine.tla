-------------------------- MODULE MCScenarioEngine --------------------------
(* Model checking of ScenarioEngine: a group whose steps extract to the same *)
(* variable, conditions on what it produced, a serial chain with a step that *)
(* is never retried.                                                         *)
EXTENDS ScenarioEngine

S(tool, reads, cond, extract) ==
    [tool |-> tool, reads |-> reads, cond |-> cond, on |-> "x", extract |-> extract]

FanOut == << <<S("a", {"x", "y"}, "always", "x"), S("b", {"x"}, "always", "x")>>,
             <<S("a", {"x"}, "if", "y"), S("b", {"x"}, "unless", Missing)>> >>

Serial == << <<S("b", {}, "never", "x")>>,
             <<S("a", {"y"}, "unless", "y")>>,
             <<S("c", {"y"}, "always", "x")>>,
             <<S("b", {"x", "y"}, "always", "y")>> >>

TheChains == {FanOut, Serial}
Retries == [a |-> 2, b |-> 1, c |-> 0]
=============================================================================
