\* A client keeps its cursor while the sequence of the job starts again.
SPECIFICATION Spec
CONSTANTS
  Streams = {s1}
  Workers = {w1}
  Callback = Callback
  Submitter = Submitter
  Nobody = Nobody
  MaxEvents = 2
  EventsPerRun = 1
  MaxLag = 1
  MaxTroubles = 2
INVARIANT CursorBelowDone
CHECK_DEADLOCK FALSE
