SPECIFICATION Spec
CONSTANTS
  c1 = c1
  c2 = c2
  c3 = c3
  d1 = d1
  d2 = d2
  Clients = {c1, c2}
  Asks <- WriteAndRead
  Daemons = {d1, d2}
  BACKLOG = 2
  Disturbances = {"stop"}
CHECK_DEADLOCK FALSE
INVARIANT OneBrowser
