\* A push may arrive again after it was answered.
CONSTANTS
  None = None
  EventClockWindow = 1
  Home = home
  Nodes = {home}
  Hubs = {h1}
  Closed = {}
  Peers = {p}
  Seed = rs
  LateCopies = TRUE
  MaxSkew = 2
  MaxSeq = 2
  MaxTime = 5
  MaxFaults = 2
SPECIFICATION Spec
INVARIANT PendingForksNothing
