----------------------------- MODULE MCWorkspace -----------------------------
(* Model checking of Workspace.                                            *)
EXTENDS Workspace, TLC

CONSTANTS s1, s10  \* directories, and the name of the one begins that of the other

\* Before the text, within it, behind it.
From == {-1, 3, 9}

Begins ==
    {<<d, d>> : d \in Dir} \cup {<<Root, d>> : d \in Dir} \cup {<<s1, s10>>}

Symmetry == Permutations(Sessions) \cup Permutations(Users)

=============================================================================
