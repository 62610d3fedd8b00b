SPECIFICATION FairSpec
CONSTANTS
  Count = 2
  Placement <- InOrder
  Bindings <- Orders
  Entrypoints = {k1, k2}
  Configs = {planned, other}
  Planned = planned
  MaxLoads = 3
  MaxChanges = 1
  None = None
  Foreign = Foreign
  Api = Api
INVARIANTS
  AcceptedIsTrue
  WrappersAreRemovable
PROPERTIES
  EvidenceComes
