\* An agent item Jade cannot read, one it can, and one for a person; one
\* instance that may crash, a gate, a pause and a switch that may change.
SPECIFICATION FairSpec
CONSTANTS
  NItems = 3
  Route <- BrowserAisPerson
  Readable = {2, 3}
  Bound = {2, 3}
  Instance = {n1}
  Person = {p1}
  MaxAttempts = 2
  MaxStarts = 1
  MaxEvents = 1
  Events = {"crash", "gate", "pause", "switch"}
CHECK_DEADLOCK FALSE
INVARIANTS
  RecordedIsInJde
PROPERTIES
  DivergedStopsTheChange
  ApprovedOrder
  CompletesUnreconciled
  RunEnds
