----------------------------- MODULE MCSockets -----------------------------
(* Bounds for model-checking Sockets.                                      *)
EXTENDS Sockets

CONSTANTS c1, c2, s1, m

TwoConns   == {c1, c2}
OneStopper == {s1}
TwoFds     == 1..2

=============================================================================
