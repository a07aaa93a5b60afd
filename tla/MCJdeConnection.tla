--------------------------- MODULE MCJdeConnection ---------------------------
EXTENDS JdeConnection, TLC

Alike == Permutations(Call)
=============================================================================
