SPECIFICATION Spec
CONSTANTS
  Configs <- SomeConfigs
INVARIANTS
  GateClosuresArePublished
