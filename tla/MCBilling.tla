------------------------------ MODULE MCBilling ------------------------------
EXTENDS Billing, TLC

\* Nothing orders the calls, the transactions or the tariffs.
Symmetry == Permutations(Calls) \cup Permutations(Attempts) \cup Permutations(Plans)
=============================================================================
