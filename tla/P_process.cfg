CONSTANTS
    Instance = {h1, h2}
    Worker = {h1, h2}
    Home <- OneEach
    Node = {n1}
    Wording = {"w1", "w2"}
    Finding = {f1, f2}
    MaxVersion = 2
    MaxRequests = 4
    MaxDeaths = 1
SPECIFICATION ProcessFairSpec
INVARIANTS
    PinsResolve
    AppliedAreInTheStory
    OneAnalysis
PROPERTIES
    AnalysisEnds
CHECK_DEADLOCK FALSE
