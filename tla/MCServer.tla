------------------------------ MODULE MCServer ------------------------------
(* Bounds for model-checking Server.                                       *)
EXTENDS Server, TLC

CONSTANTS c1, c2, c3, s1, s2

ThreeConns  == {c1, c2, c3}
TwoConns    == {c1, c2}
OneStopper  == {s1}
TwoStoppers == {s1, s2}

\* Clients are interchangeable, and so are the threads that call stop().
Symmetry == Permutations(Conns) \cup Permutations(Stoppers)

=============================================================================
