SPECIFICATION FairSpec
CONSTANTS
  j1 = j1
  j2 = j2
  j3 = j3
  t1 = t1
  t2 = t2
  s1 = s1
  Jobs = {j1, j2}
  Tasks = {t1, t2}
  Streams = {}
  Estimate <- MixedEstimate
  MaxConcurrent = 2
  MaxQueued = 2
  MaxRetained = 3
  MaxPerJob = 1
INVARIANT SlotsAccounted
INVARIANT IdleMeansFinished
PROPERTY EveryJobEnds
PROPERTY IdleIsNoticed
CHECK_DEADLOCK FALSE
