\* Two replicas, a forked chain, a staging buffer of two.
CONSTANTS
  None = None
  c = c
  w = w
  Replicas = {p1, p2}
  Chains = {c}
  Witnesses = {c, w}
  Records <- MCRecords
  GenesisPrev = "genesis"
  ImportBufferCap = 2
  MaxAttestations = 1
SPECIFICATION Spec
SYMMETRY MCSymmetry
INVARIANTS ChainSound ImportForkEvident AppliedExact AttestedHeadHolds
PROPERTY AppendOnly
