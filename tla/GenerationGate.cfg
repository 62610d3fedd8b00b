SPECIFICATION FairSpec
CONSTANTS
  GenerationCount = 4
  EmbeddingCount = 2
  ControlCount = 2
  Generations <- GenerationRequests
  Embeddings <- EmbeddingRequests
  Controls <- ControlCalls
  GenerationSlots = 2
  EmbeddingSlots = 1
  Threshold = 0
  None = None
ACTION_CONSTRAINT InOrder
INVARIANTS
  CountsAreExact
  SlotsAreConserved
  QuiescedStaysIdle
PROPERTIES
  ImplementsIngress
  QueuedAreServed
  ControlsEnd
