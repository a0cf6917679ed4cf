--------------------------- MODULE MCLayeredMemory ---------------------------
(* LayeredMemory with the values TLC needs. *)
EXTENDS LayeredMemory, TLC

\* Without is the order-preserving filter of the standard module.
ShortSeqs == UNION {[1..n -> 1..3] : n \in 0..4}
ASSUME WithoutIsFilter ==
    \A s \in ShortSeqs, S \in SUBSET (1..3) :
        Without(s, S) = SelectSeq(s, LAMBDA x : x \notin S)

=============================================================================
