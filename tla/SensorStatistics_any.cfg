\* Two uploads, a forced refresh and a purge of one sensor, one failure.
SPECIFICATION FairStatisticsSpec
CONSTANTS
  Upload = {u1, u2}
  Forced = {f1}
  Purge = {p1}
  MaxFailures = 1
INVARIANTS UndisturbedIsFresh StatisticsExist
PROPERTIES EveryRefreshEnds
CHECK_DEADLOCK FALSE
