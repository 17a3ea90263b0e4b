SPECIFICATION ReadSpec
CONSTANTS
  Opening <- MCOpening
  Time <- MCTime
  Value <- MCValue
  MaxRows = 6
  Limits = {2, 6}
  Thresholds = {2, 4, 5}
  Minute = 3
  Widths = {1, 2}
  MaxWrites = 1
INVARIANTS WalkListsAll StatisticsBoundThePages SampleIsASelection IntervalsHoldAll
CHECK_DEADLOCK FALSE
