SPECIFICATION FairSpec
CONSTANTS
  Ids = {i1}
  Workers = {w1, w2}
  Requests = {r1}
  Ports = {p1}
  Boot = Boot
  None = None
PROPERTIES
  NoStartOnceStopping
  TransitionsEnd
  ShutdownEnds
