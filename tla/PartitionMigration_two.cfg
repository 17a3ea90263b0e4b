SPECIFICATION FairSpec
CONSTANTS
  Operator = {o1, o2}
  Id <- MCId
  Sensor <- MCSensor
  SensorOf <- MCSensorOf
  Remainder <- MCRemainder
  IndexKeys <- MCIndexKeys
  UniqueKeys = {"pkey"}
  NumPartitions = 2
  BatchSize = 1
  MaxCopies = 2
  MaxFaults = 1
INVARIANTS LiveIsWhole PreparedIsWhole 
CHECK_DEADLOCK FALSE
PROPERTY PrepareResumes
