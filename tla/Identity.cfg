\* One agent or hub identity, two recovery seeds, one signing thread.
CONSTANTS
  None = None
  EventClockWindow = 1
  Hubs = {h1}
  Seeds = {rs1, rs2}
  Signers = {s1}
  MaxSeq = 3
  MaxTime = 4
SPECIFICATION Spec
INVARIANTS HandedOutVerifies RestartSafe SignedNeverDisowned
