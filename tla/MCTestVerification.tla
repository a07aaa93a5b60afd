------------------------- MODULE MCTestVerification -------------------------
\* TestVerification with people who are interchangeable.
EXTENDS TestVerification, TLC

Symmetry == Permutations(Person)
=============================================================================
