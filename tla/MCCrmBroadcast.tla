--------------------------- MODULE MCCrmBroadcast ---------------------------
EXTENDS CrmBroadcast, TLC

\* Nothing orders the workers, nor the contacts of one audience.
Symmetry == Permutations(Workers) \cup Permutations(Contacts)
=============================================================================
