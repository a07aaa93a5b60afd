--------------------------- MODULE MCApprovalGate ---------------------------
\* One story with at most two designs, changes and roles for TLC.
EXTENDS ApprovalGate, TLC

Symmetry == Permutations(Change)
=============================================================================
