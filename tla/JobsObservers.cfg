\* Three jobs, one retained, or two and a stream; a page with two contexts and
\* two runs; two chips and three flashes.  Jobs are told apart only by equality,
\* and what is said of the page does not speak of them.
SPECIFICATION PartSpec
CONSTANTS
  j1 = j1
  j2 = j2
  j3 = j3
  t1 = t1
  t2 = t2
  s1 = s1
  Jobs = {j1, j2, j3}
  Tasks = {}
  Streams = {s1}
  Estimate <- UnitEstimate
  MaxConcurrent = 1
  MaxQueued = 1
  MaxRetained = 1
  MaxPerJob = 1
  Contexts = {"sketch", "edited"}
  MaxRuns = 2
  Chips = {"chip1", "chip2"}
  Statics = {"boot1", "boot2"}
  Apps = {"app1", "app2"}
  Damaged = "damaged"
  MaxFlashed = 3
INVARIANTS RetainedBounded OpenStreamWillHear
INVARIANTS WrittenIsChosen CompleteBoots
PROPERTIES FinishedStaysReachable KeepsItsPromise EveryRunEnds
SYMMETRY JobSymmetry
CHECK_DEADLOCK FALSE
