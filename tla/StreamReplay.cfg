\* One stream and a worker; a job with two lives, or with one life and a mishap.
\* Two compiles on a page that is loaded again once, three failures of its stores.
SPECIFICATION ClientSpec
CONSTANTS
  Streams = {s1}
  Workers = {w1}
  Callback = Callback
  Submitter = Submitter
  Nobody = Nobody
  MaxEvents = 2
  EventsPerRun = 1
  MaxLag = 1
  MaxTroubles = 2
  PageJobs = {p1}
  Nothing = Nothing
  MaxAccepted = 2
  MaxReloads = 1
  MaxIoFaults = 3
INVARIANTS ClientTypeOK DoneIsLast ReloadFindsRun DeletedStaysDeleted
PROPERTIES ReplayAwaitsOutcome NothingSkipped DoneIsHeard
CHECK_DEADLOCK FALSE
