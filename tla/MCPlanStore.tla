----------------------------- MODULE MCPlanStore -----------------------------
(* Model checking of PlanStore.  "on" and "off" are served by one tool with *)
(* another constant argument: two templates of one shape.  "on" and "on2"   *)
(* are phrasings of the same wish, "list" is served by another tool.        *)
EXTENDS PlanStore, TLC

Shapes == [on |-> "switch", off |-> "switch", list |-> "list"]

Wish == [on |-> "on", on2 |-> "on", off |-> "off", list |-> "list"]
Serves == [q \in Query |-> Wish[q]]

\* Tenths of an anchor's tokens; a query covers its own anchor.  "off" also covers
\* the anchor "list", a match across shapes: no score tells wishes apart.
Scores ==
    [q \in Query |-> [a \in Query |->
        IF q = a THEN 10
        ELSE IF Wish[q] = Wish[a] \/ <<q, a>> = <<"off", "list">> THEN 7 ELSE 2]]

Symmetry == Permutations(Tasks)

=============================================================================
