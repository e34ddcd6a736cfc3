\* Two clients of one job ID, two workers, a reconciler; one mishap.
\* Two builds of one graph; two writers and a reader of one artifact.
SPECIFICATION WorkerSpec
CONSTANTS
  Jobs = {j1}
  Clients = {c1, c2}
  Workers = {w1, w2}
  Reconcilers = {r1}
  NoOne = NoOne
  RequestBytes <- OneByte
  MaxQueued = 1
  MaxBytes = 1
  MaxConsumers = 2
  MaxMishaps = 1
  LockMayExpire = FALSE
  AddMayBeLost = TRUE
  b1 = b1
  b2 = b2
  g1 = g1
  h1 = h1
  h2 = h2
  Builds = {b1, b2}
  Hosts = {h1, h2}
  Tools = {"p", "q"}
  Count = 2
  Needs <- TwoSteps
  Upstream <- TwoUp
  Pins = {"x", "y"}
  Workloads <- Pairs
  MaxDamaged = 1
  Nothing = Nothing
  Absent = Absent
  Broken = Broken
  Unreadable = Unreadable
  Writers = {w1, w2}
  Readers = {g1}
  Ids = {1, 2, 3, 4, 5}
SYMMETRY Interchangeable
INVARIANTS ConsumerKeepsJob NoWrongfulAbort FrameIsTruthful OutputsAreOwn ServedIsGenuine
PROPERTIES KeepsLives
CHECK_DEADLOCK FALSE
