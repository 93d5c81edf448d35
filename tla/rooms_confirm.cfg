SPECIFICATION Spec
CONSTANTS
  c1 = c1
  c2 = c2
  q = q
  m1 = m1
  m2 = m2
  s1 = s1
  None = None
  Clients = {c1, c2}
  Groups = {q, m1}
  Servers = {s1}
  Queue = q
  LobbySize = 2
  RunIds = {1}
  Ops <- ConfirmOps
  MaxPending = 2
  CloseMidway = FALSE
SYMMETRY Symmetry
CHECK_DEADLOCK FALSE
PROPERTY
  AllConfirmed
