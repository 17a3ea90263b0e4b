\* Three jobs, one of them with a call that is lost or refused, or a restart.
SPECIFICATION PublicationSpec
CONSTANTS
  Sensor = {s1}
  Nil = Nil
  Initially = {"absent", "published"}
  max_retries = 1
  MaxJobs = 3
  MaxFaults = 1
INVARIANTS PublishHolds UnpublishHolds
CHECK_DEADLOCK FALSE
