\* The outcome is read after the job whose value it publishes.
SPECIFICATION Spec
CONSTANTS
  Jobs = {j1}
  Clients = {c1}
  Workers = {w1}
  Reconcilers = {r1}
  NoOne = NoOne
  RequestBytes <- OneByte
  MaxQueued = 1
  MaxBytes = 1
  MaxConsumers = 2
  MaxMishaps = 0
  LockMayExpire = FALSE
  AddMayBeLost = FALSE

INVARIANT FrameIsAuthoritative
CHECK_DEADLOCK FALSE
