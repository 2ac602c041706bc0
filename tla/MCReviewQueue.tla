---------------------------- MODULE MCReviewQueue ----------------------------
EXTENDS ReviewQueue, TLC

\* Requests of one kind differ in nothing but their name.
Symmetry == Permutations(Reviewers) \cup Permutations(Promoters)
=============================================================================
