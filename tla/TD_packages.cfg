SPECIFICATION Spec
CONSTANTS
    Person = {p1, p2}
    Run = {r1, r2}
    MaxPackages = 2
    MaxOutside = 1
INVARIANTS
    OfferedIsPossible
    MilestonesInOrder
    RevisionsBuildOnEachOther
    ApprovalOfThisDesign
PROPERTIES
    RecordedUnderApproval
SYMMETRY Symmetry
CHECK_DEADLOCK FALSE
