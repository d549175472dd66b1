SPECIFICATION Spec
CONSTANTS
  c1 = c1
  c2 = c2
  c3 = c3
  d1 = d1
  d2 = d2
  Clients = {c1, c2, c3}
  Asks <- WriteAndTwoReads
  Daemons = {d1, d2}
  BACKLOG = 0
  Disturbances = {}
CHECK_DEADLOCK FALSE
PROPERTY LiveSocketKept
