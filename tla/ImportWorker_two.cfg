\* Two workers, one import: crashes, stalls and take-overs.
SPECIFICATION Spec
CONSTANTS
  i1 = i1
  i2 = i2
  Import = {i1}
  MaxAttempts = 2
  MaxFaults = 2
  Worker = {w1, w2}
  NumChunks = 2
  Key <- MCKey
  Content <- MCContent
  Defective = {}
  Unmapped = {}
  Earlier = {"k3"}
INVARIANTS LoadedIsComplete ReceiptIsDurable InsertedNeverOverstated
CHECK_DEADLOCK FALSE
