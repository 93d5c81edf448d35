SPECIFICATION CellSpec
CONSTANTS
  c1 = c1
  c2 = c2
  g1 = g1
  g2 = g2
  s1 = s1
  None = None
  Clients = {c1, c2}
  Groups = {g1, g2}
  Servers = {s1}
  Ops <- CellOps
  MaxPending = 2
  CloseMidway = FALSE
  HalfWord = 16
  GridSize = 2
  IsUnity3D = TRUE
  Positions <- Border
  Route <- Routes
  MaxQueue = 2
  GroupOf <- TwoCells
CHECK_DEADLOCK FALSE
INVARIANTS
  LatestCell
  InItsCell
  NeighboursKnow
