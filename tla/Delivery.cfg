\* Well-formed and malformed drafts, two epoch keys, two interactions, two versions of a message.
CONSTANTS
  None = None
  Bad = Bad
  Nul = Nul
  SmallOrder = SmallOrder
  MaxMessageLifetime = 3
  CapExpGrace = 0
  CapExpMaxAhead = 3
  MaxRetryAfter = 2
  Drafts <- MCDrafts
  EpochKeys <- MCEpochKeys
  IXKeys <- MCIXKeys
  Options <- MCOptions
  OptionsOf <- MCOptionsOf
  MaxVersions = 2
  MaxKeySeq = 1
  MaxLosses = 1
  MaxDeletions = 1
SPECIFICATION FairSpec
INVARIANTS SealedOpens ClosedStaysClosed
PROPERTIES DeliveredAsDecided SenderLearns
CHECK_DEADLOCK FALSE
