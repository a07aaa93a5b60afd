SPECIFICATION Spec
CONSTANTS
  Change = {c1, c2}
  None = None
  Run = {1}
  Approver = {a1}
  Role = {r1}
  Overlapping = FALSE
  MaxEvents = 1
CHECK_DEADLOCK FALSE
SYMMETRY Symmetry
INVARIANTS
  BasisIsCurrent
