\* The TTL outlasts the longest gateway section; a worker may hang in its own.
\* The worker of the lifecycle stops for good, and the rate limit's time ends.
SPECIFICATION ControlSpec
CHECK_DEADLOCK FALSE
CONSTANTS
  Gateways = {g1, g2}
  Patient = {w1}
  Nobody = Nobody
  TTL = 20
  CommandTimeout = 1
  LedgerRows = 1
  Workers = {v1, v2, v3}
  Slots = {s1}
  Free = Free
  Stray = Stray
  SlotTTL = 3
  JobTimeout = 1
  MaxWait = 1
  Lag = 1
  KeyTTL = 2
  JobWallTimeout = 2
  DrainTimeout = 2
  MaxBeats = 2
  MinReplicas = 1
  MaxReplicas = 3
  TargetJobs = 2
  Hysteresis = 20
  UpCooldown = 1
  DownCooldown = 2
  IdleGrace = 1
  PerReplica = 1
  Loads <- MCLoads
  MaxChanges = 2
  MaxFaults = 1
  Never = Never
  r1 = r1
  r2 = r2
  Requests = {r1, r2}
  Counters = {"global", "one", "two"}
  KeysOf <- MCKeysOf
  Budget <- MCBudget
  FullCost <- MCFullCost
  Ahead = 1
  Offset <- MCOffset
  Window = 2
  Slack = 2
  AnswerTime = 3
  LastBucket = 1
  MaxTime = 5
  u1 = u1
  u2 = u2
  Visitors = {u1, u2}
  Tokens <- MCTokens
  Sizes = {1, 2}
  ProjectTTL = 2
  MaxProjects = 2
  MaxVisitorBytes = 3
  MaxGlobalBytes = 4
  MaxLost = 1
INVARIANTS ControlTypeOK LeaseOutlivesAdmission CompilerOwnsSlot DrainedIsQuiet WindowBounded PaysInFull ProjectsWithinQuota
PROPERTIES NeverReadvertised ShutdownEnds RetryIsIdempotent Settles
