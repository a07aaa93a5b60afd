--------------------------- MODULE MCMemberships ---------------------------
\* Memberships with people, invitations and requests that are interchangeable;
\* the setup account's address is not.
EXTENDS Memberships, TLC

Symmetry == Permutations(Person \ {Setup}) \cup Permutations(Invitation) \cup Permutations(Request)
=============================================================================
