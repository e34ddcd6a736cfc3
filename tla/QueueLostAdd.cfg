\* Queue.add() takes effect and its reply is lost.
SPECIFICATION Spec
CONSTANTS
  Jobs = {j1, j2}
  Clients = {c1, c2}
  Workers = {w1}
  Reconcilers = {r1}
  NoOne = NoOne
  RequestBytes <- OneByte
  MaxQueued = 1
  MaxBytes = 1
  MaxConsumers = 2
  MaxMishaps = 1
  LockMayExpire = FALSE
  AddMayBeLost = TRUE

INVARIANT StoredBytesBounded
CHECK_DEADLOCK FALSE
