\* Two chunks and three requests: one is a retry, and one may fail.
SPECIFICATION Spec
CONSTANTS
  Request = {r1, r2, r3}
  total_chunks = 2
  Mode = {"legacy", "bulk"}
  Times <- MCTimes
  None = None
  MaxFaults = 1
INVARIANTS FinalizedIsComplete FinalizedIsRefreshed SequentialSession
CHECK_DEADLOCK FALSE
