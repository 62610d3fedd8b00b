SPECIFICATION FairSpec
CONSTANTS
  CallCount = 3
  GroupCount = 4
  Callers <- CallNumbers
  Groups <- GroupNumbers
  Offered = {"validate", "start", "quiesce", "resume", "shutdown"}
  Monitor = Monitor
  None = None
ACTION_CONSTRAINT InOrder
INVARIANTS
  QuiescedStaysClosed
  OpenGateIsServed
  NothingIsForgotten
PROPERTIES
  EnginesDoNotOverlap
  FailedEngineIsStopped
  CallsEnd
