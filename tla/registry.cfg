SPECIFICATION Spec
CONSTANTS
  s1 = s1
  s2 = s2
  east = east
  west = west
  Star = Star
  l1 = l1
  Services = {s1, s2}
  Zones = {east, west}
  ZoneOf <- TwoZones
  Callers = {l1}
  Interval = 1
  TTL = 4
  MaxDelay = 1
  MaxLost = 1
INVARIANTS
  TypeOK
  GhostsExpire
  ListComplete
PROPERTY
  LiveStays
