----------------------------- MODULE MCScanner ------------------------------
(* All finders look for the same device; one of them may force its scan. Two *)
(* calls race: two finders, or a finder and a stream.                        *)
EXTENDS Scanner, TLC

CONSTANTS d1, f1, f2, s1

MCTarget == [f \in Finders |-> d1]
MCMixes == {{f1, f2}, {f1, s1}}

=============================================================================
