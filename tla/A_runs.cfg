CONSTANTS
    Slot = {h1}
    Model = {m1, m2}
    DefaultModel = m1
    Key = {"k1", "k2"}
    Text = {"x1", "x2"}
    Content = {"c1", "c2"}
    Shipped = "x1"
    MaxEvents = 3
SPECIFICATION FairSpec
INVARIANTS
    TestedThis
    RecordsTell
PROPERTIES
    RunsEnd
CHECK_DEADLOCK FALSE
