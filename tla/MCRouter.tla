------------------------------ MODULE MCRouter ------------------------------
(* Bounds for model-checking Router.                                       *)
EXTENDS Router, TLC

CONSTANTS GET, POST, root, print

\* Two of each: the request's own and another.  No action prefers one to the other.
TwoMethods == {GET, POST}
TwoPaths   == {root, print}
Symmetry   == Permutations(TwoMethods) \cup Permutations(TwoPaths)

=============================================================================
