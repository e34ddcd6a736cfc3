\* Liveness: one job ID, one client, two workers; two crashes, stalls or lost calls.
SPECIFICATION FairSpec
CONSTANTS
  Jobs = {j1}
  Clients = {c1}
  Workers = {w1, w2}
  Reconcilers = {r1}
  NoOne = NoOne
  RequestBytes <- OneByte
  MaxQueued = 1
  MaxBytes = 1
  MaxConsumers = 2
  MaxMishaps = 2
  LockMayExpire = FALSE
  AddMayBeLost = FALSE

PROPERTIES EveryJobEnds OutcomeIsPublished AbandonedJobStops
CHECK_DEADLOCK FALSE
