SPECIFICATION Spec
CONSTANTS
  NItems = 1
  Route <- OneAgent
  Readable = {1}
  Bound = {1}
  Instance = {n1, n2}
  Person = {p1}
  MaxAttempts = 2
  MaxStarts = 2
  MaxEvents = 1
  Events = {"slow", "crash", "drift"}
CHECK_DEADLOCK FALSE
INVARIANTS
  NoBlindRetry
  RecordedBeforeSent
PROPERTIES
  DivergedForever
  DeliveredNeverRunsAgain
