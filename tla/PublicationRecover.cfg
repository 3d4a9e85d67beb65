\* The identity is recovered on a second node while the first one runs.
CONSTANTS
  None = None
  EventClockWindow = 1
  Home = home
  Nodes = {home, new}
  Hubs = {h1}
  Closed = {}
  Peers = {p}
  Seed = rs
  LateCopies = FALSE
  MaxSkew = 0
  MaxSeq = 3
  MaxTime = 5
  MaxFaults = 1
SPECIFICATION Spec
INVARIANTS OneHistory AdoptedIsWitnessed
CHECK_DEADLOCK FALSE
