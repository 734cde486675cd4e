---------------------------- MODULE MCCommentDm ----------------------------
EXTENDS CommentDm, TLC

\* Workers are interchangeable job slots.
Symmetry == Permutations(Workers)
=============================================================================
