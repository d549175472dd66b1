SPECIFICATION FairSpec
CONSTANTS
  c1 = c1
  c2 = c2
  c3 = c3
  d1 = d1
  d2 = d2
  Clients = {c1, c2}
  Asks <- Pairs
  Daemons = {d1, d2}
  BACKLOG = 2
  Disturbances = {"crash", "stop", "interrupt", "slow", "refused"}
CHECK_DEADLOCK FALSE
INVARIANTS SupervisorTypeOK IssuedAsReported OneSupervisor
PROPERTY CallsReturn
