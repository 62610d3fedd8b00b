SPECIFICATION ObservedSpec
CONSTANTS
  Ids = {i1}
  Workers = {w1, w2}
  Requests = {r1, r2}
  Ports = {p1}
  Boot = Boot
  None = None
SYMMETRY Symmetry
INVARIANTS
  OpenGateServesTheRecord
  StopsOnlyWhatIsDrained
  QueueingCountsItsProcess
  ClosedGateHasAReason
  HealthyReportIsTrue
