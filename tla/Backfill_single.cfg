\* One worker that crashes at any point, and an owner who rolls back.
SPECIFICATION Spec
CONSTANTS
  Worker = {w1}
  Key <- MCKey
  NumChunks = 2
  Staged <- MCStaged
  NumBuckets = 2
  Bucket <- MCBucket
  Contested = {"k3"}
  MaxAttempts = 2
  MaxFaults = 2
  MaxRollbacks = 1
INVARIANTS RecoveryCopy EachBucketOnce UndisturbedIsComplete RolledBackIsClean
CHECK_DEADLOCK FALSE
