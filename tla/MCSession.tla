----------------------------- MODULE MCSession ------------------------------
EXTENDS Session

CONSTANTS a1, a2
Addrs == {a1, a2}

\* The addresses are alike: the device starts at the first.
MCInit == Init /\ device.home = a1
MCSpec == MCInit /\ [][Next]_vars
MCFairSpec == MCSpec /\ Fairness
=============================================================================
