\* One node, two hubs it may name or switch to and one that is closed to it; clocks off by up to two; fairness.
CONSTANTS
  None = None
  EventClockWindow = 1
  Home = home
  Nodes = {home}
  Hubs = {h1, h2, h3}
  Closed = {h3}
  Peers = {p}
  Seed = rs
  LateCopies = FALSE
  MaxSkew = 2
  MaxSeq = 2
  MaxTime = 5
  MaxFaults = 1
SPECIFICATION FairSpec
PROPERTY PublicationCompletes
INVARIANTS PeerTimesWitnessed PendingForksNothing
CHECK_DEADLOCK FALSE
