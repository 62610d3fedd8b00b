SPECIFICATION FairSpec
CONSTANTS
  Roles <- AllRoles
  Given <- SomeGiven
  Parsers <- MostFlags
INVARIANTS
  NothingOutlivesShutdown
  AbsenceIsFinal
  OpenGateIsResolved
  AppliedIsSelected
PROPERTIES
  StopEnds
