SPECIFICATION Spec
CONSTANTS
  Ids = {i1}
  Workers = {w1}
  Requests = {r1}
  Ports = {p1}
  Boot = Boot
  None = None
PROPERTIES
  AbandonedChangesNothing
