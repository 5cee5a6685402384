------------------------- MODULE MCPassiveListener --------------------------
(* Two calls, for the default port and for another one.                      *)
EXTENDS PassiveListener, TLC

CONSTANTS c1, c2, p1, p2

MCWanted == (c1 :> {p1}) @@ (c2 :> {p1, p2})

=============================================================================
