--------------------------- MODULE MCWriteSettings ---------------------------
EXTENDS WriteSettings, TLC

Alike == Permutations(Address)
=============================================================================
