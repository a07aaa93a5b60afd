CONSTANTS
    Address = {a1, a2}
    Setting = {s1}
    MaxWrite = 2
SPECIFICATION WriteSpec
INVARIANTS
    ReadyWithThisPassword
SYMMETRY Alike
CHECK_DEADLOCK FALSE
