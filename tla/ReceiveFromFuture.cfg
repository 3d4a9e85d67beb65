\* A sender's clock further ahead than recipients tolerate: what Error.Permanent says of from-future.
SPECIFICATION Spec
CONSTANTS
  None = None
  EventClockWindow = 1
  ClockSkew = 1
  SenderSkew = 2
  RotationGrace = 1
  NoticeMaxAge = 2
  MaxMessageLifetime = 3
  MaxTime = 5
  MaxNotices = 1
  MaxMessages = 1
  MaxReplaced = 2
INVARIANT SameBytesFailAgain
CHECK_DEADLOCK FALSE
