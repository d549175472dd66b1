SPECIFICATION Spec
CONSTANTS
  p1 = p1
  p2 = p2
  message = message
  Procs <- MCProcs
  Kinds <- MCKinds
  DailyCap <- CapOfOne
  WEEKLY_MULTIPLIER = 2
  CLEANUP_CEILING_MULTIPLIER = 2
  DAY = 2
  WEEK = 6
  THROTTLE_COOLDOWN = 1
  THROTTLE_MAX_COOLDOWN = 3
  THROTTLE_MEMORY = 4
  THROTTLE_PACE_MULTIPLIER = 2
  FAILURE_WINDOW = 2
  FAILURE_LIMIT = 2
  Intervals = {1}
  RetryAfters = {0}
  Ops <- BreakerOps
  MaxTime = 7
  MaxEntries = 3
  MaxThrottles = 3
CHECK_DEADLOCK FALSE
SYMMETRY Symmetry
INVARIANT BlockedUndosBounded
PROPERTY BreakerOutlastsLoss
