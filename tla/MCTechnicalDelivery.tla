------------------------ MODULE MCTechnicalDelivery ------------------------
\* TechnicalDelivery with people and runs that are interchangeable.
EXTENDS TechnicalDelivery, TLC

Symmetry == Permutations(Person) \cup Permutations(Run)
=============================================================================
