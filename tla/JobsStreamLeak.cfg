SPECIFICATION Spec
CONSTANTS
  j1 = j1
  j2 = j2
  j3 = j3
  t1 = t1
  t2 = t2
  s1 = s1
  Jobs = {j1}
  Tasks = {}
  Streams = {s1}
  Estimate <- UnitEstimate
  MaxConcurrent = 1
  MaxQueued = 1
  MaxRetained = 1
  MaxPerJob = 1
INVARIANT SubscribersAreOpen
CHECK_DEADLOCK FALSE
