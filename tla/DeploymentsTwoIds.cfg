SPECIFICATION Spec
CONSTANTS
  Ids = {i1, i2}
  Workers = {w1, w2}
  Requests = {r1}
  Ports = {p1, p2, p3}
  Boot = Boot
  None = None
SYMMETRY Symmetry
INVARIANTS
  OneChildPerPort
  EveryChildIsRegistered
PROPERTIES
  ImplementsRecords
