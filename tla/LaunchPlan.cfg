SPECIFICATION Spec
CONSTANTS
  Canonical = {"u1", "u2"}
  None = None
  Refused = Refused
  Scenarios <- ManyScenarios
  Tampered <- OneChange
  Absolute = {"/models/model", "/models/other"}
  Prepared = {"/models/model", "model"}
INVARIANTS
  HandedOnUnchanged
  ReplayAgrees
  EngineReadsWhatIsPinned
