--------------------------- MODULE MCLeadDelivery ---------------------------
EXTENDS LeadDelivery, TLC

\* Workers are interchangeable: nothing orders them.
Symmetry == Permutations(Workers)
=============================================================================
