SPECIFICATION Spec
CONSTANTS
    Person = {p1, p2}
    MaxAttempts = 2
    MaxVersions = 2
    MaxOutside = 1
INVARIANTS
    ReadyIsAccounted
    FinalWasTested
PROPERTIES
    FinalIsNewestDraft
SYMMETRY Symmetry
CHECK_DEADLOCK FALSE
