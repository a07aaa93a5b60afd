CONSTANTS
    Address = {a1, a2}
    Setting = {s1}
    Call = {c1, c2}
    MaxRevision = 3
SPECIFICATION Spec
INVARIANTS
    EvidenceOfItsRevision
PROPERTY KeepsItsPromise
SYMMETRY Alike
CHECK_DEADLOCK FALSE
