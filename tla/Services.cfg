\* Two daemons, two hubs, two tasks, two authorizations, three accounts: one component at a time.
CONSTANTS
  None = None
  Parts = {"grants", "sessions", "tasks", "payments", "epochs", "pads"}
  Bad = Bad
  Nul = Nul
  SmallOrder = SmallOrder
  MaxMessageLifetime = 3
  CapExpGrace = 0
  CapExpMaxAhead = 3
  MaxRetryAfter = 2
  GrantTerms <- MCGrantTerms
  Envelopes <- MCEnvelopes
  MaxEpoch = 2
  MaxTime = 3
  MaxGrants = 1
  MaxAttempts = 2
  Daemons = {"a", "c"}
  Hubs <- MCHubs
  Targets <- MCTargets
  Homes <- MCHomes
  Bodies = {"x", "y"}
  MaxSkewMillis = 1
  MaxClock = 2
  MaxOpens = 2
  MaxSessions = 2
  MaxSends = 1
  EventClockWindow = 1
  DayMS = 2
  MaxDay = 9
  MaxSkew = 1
  Deliverables = {"x"}
  Leads = {0, 1}
  Shifts <- MCShifts
  MaxNow = 6
  MaxRotations = 1
  MaxAsks = 2
  MaxResults = 1
  WordMax = 7
  ClockSkew = 1
  MaxAuthWindow = 3
  AuthTerms <- MCAuthTerms
  Requirements <- MCRequirements
  Balance = 2
  MaxRotated = 1
  MaxSigned = 2
  Accounts = {"a", "b", "c"}
  MinDepth = 1
  MaxDepth = 3
  MaxSum = 3
  Amounts = {1, 2}
  MaxPayments = 3
  MaxEpochs = 2
  MaxAudits = 1
  Holders <- MCHolders
  ClaimedSums = {0, 3}
  MaxLies <- MCMaxLies
  Bases <- MCBases
SPECIFICATION ServicesSpec
INVARIANTS
  GrantsWork RevocationHolds
  SessionAgrees SendAccounted
  EvidenceBelongs ResultAccepted ReceiptReviewable
  PaidOnce WindowHolds
  HonestProves NothingHidden
  PadIsExact
CHECK_DEADLOCK FALSE
