SPECIFICATION Spec
CONSTANTS
  Campaign = Campaign
  None = None
  Station = {s1, s2}
  Sensor = {x1}
  Field = {f1, f2}
  Request = {r1, r2}
  MaxRequests = 2
  MaxRefresh = 2
  MaxChanges = 1
SYMMETRY Symmetry
CHECK_DEADLOCK FALSE
INVARIANTS OrphansAreLate GeometryIsTheUploads MetadataFitsTheSchema
PROPERTY PatchesDoNotCollide
