SPECIFICATION Spec
CONSTANTS
  c1 = c1
  c2 = c2
  g1 = g1
  s1 = s1
  s2 = s2
  None = None
  Clients = {c1, c2}
  Groups = {g1}
  Servers = {s1, s2}
  Ops <- MembershipOps
  MaxPending = 2
  CloseMidway = TRUE
SYMMETRY Symmetry
CHECK_DEADLOCK FALSE
INVARIANTS
  Agreement
  NoZombieGroup
  PeersIntroduced
  NoPhantomPeer
PROPERTY
  ImplementsMembership
