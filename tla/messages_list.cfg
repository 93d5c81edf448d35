SPECIFICATION FairSpec
CONSTANTS
  s1 = s1
  s2 = s2
  c1 = c1
  c2 = c2
  None = None
  Gone = Gone
  Servers = {s1, s2}
  Clients = {c1, c2}
  MaxSent = 2
CHECK_DEADLOCK FALSE
PROPERTY
  ListArrives
