SPECIFICATION Spec
CONSTANTS
  Configs <- SomeConfigs
INVARIANTS
  NotReadyAfterFailure
  StateIsExplained
  DiskIsCurrent
