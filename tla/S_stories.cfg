SPECIFICATION FairSpec
CONSTANTS
    Host = {h1, h2}
    Slot = {h1, h2}
    HostOf <- OneEach
    MaxText = 1
    MaxAnalyses = 1
    MaxAnswers = 1
    MaxRestart = 1
INVARIANTS
    ApprovedAsReviewed
    DecisionsAgree
PROPERTIES
    AuthorisedByBoth
    RunsEnd
CHECK_DEADLOCK FALSE
