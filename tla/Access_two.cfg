SPECIFICATION Spec
CONSTANTS
  Instance = {p, q}
  Primary = p
  Call = {c1, c2}
  None = None
  CheckTTL = 1
  TTL = 2
  MaxLag = 1
  MaxCalls = 2
  MaxEdits = 1
SYMMETRY Symmetry
CHECK_DEADLOCK FALSE
INVARIANTS DiscoveryIsWhole
PROPERTIES NeverDowngrades ListsAreRecent
