SPECIFICATION FairSpec
CONSTANTS
  N = 3
  Requests = {r1, r2, r3}
  NoServer = NoServer
INVARIANTS
  DownIffProbed
  NoneStarved
PROPERTY
  ComesBack
