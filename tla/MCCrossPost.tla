---------------------------- MODULE MCCrossPost ----------------------------
EXTENDS CrossPost, TLC

Symmetry == Permutations(Sweeps)

\* OnceOut has no more to say of the target once it is in `lost`: the instance stops there.
UntilLost == Init /\ [][lost = {} /\ Next]_vars
=============================================================================
