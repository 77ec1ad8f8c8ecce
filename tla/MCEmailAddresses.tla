--------------------------- MODULE MCEmailAddresses ---------------------------
EXTENDS EmailAddresses, TLC

\* Requests and schools are interchangeable.
Symmetry == Permutations(Sessions) \union Permutations(Schools)
=============================================================================
