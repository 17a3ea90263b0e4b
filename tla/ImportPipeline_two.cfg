\* One combined worker and one post-processing worker, one import.
SPECIFICATION FairSpec
CONSTANTS
  i1 = i1
  all = all
  post = post
  s1 = s1
  s2 = s2
  Import = {i1}
  MaxAttempts = 3
  MaxFaults = 2
  Process = {all, post}
  Polls <- MCPolls
  NumChunks = 2
  Key = {"k1", "k2", "k3"}
  Content <- MCContent
  Defective = {}
  Unmapped = {}
  Earlier = {"k3"}
  Sensor = {s1, s2}
  Known = {s1}
INVARIANTS CompletedIsRefreshed
PROPERTIES ReceiptImmutable ResultIsTheOwners StatisticsNotRepeated ImplementsLifecycle EventuallyAtAnEnd
CHECK_DEADLOCK FALSE
