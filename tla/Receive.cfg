\* A sender's clock further ahead than recipients tolerate, one message, one notice, and two key states replaced, of the sender and of its hub.
SPECIFICATION Spec
CONSTANTS
  None = None
  EventClockWindow = 1
  ClockSkew = 1
  SenderSkew = 2
  RotationGrace = 1
  NoticeMaxAge = 2
  MaxMessageLifetime = 3
  MaxTime = 5
  MaxNotices = 1
  MaxMessages = 1
  MaxReplaced = 2
INVARIANTS PlannedRotationLosesNothing PermanentIsFinal
PROPERTY OldKeysStop
CHECK_DEADLOCK FALSE
