\* Epochs of two ticks, sets of two keys, every mix of the suites in them; a consumer and an owner whose clocks are off by one.
CONSTANTS
  None = None
  Hub = hub
  EventClockWindow = 1
  ClockSkew = 1
  Epoch = 2
  EpochsAhead = 1
  DeliveryDeadline = 1
  MaxKeyValidity = 4
  MaxKeysPerSet = 3
  MaxMessageLifetime = 4
  MaxUint64 = 100
  MailboxLifetime = 1
  Skew = 1
  StartTime = 4
  MaxTime = 10
  MaxSets = 2
  MaxEvents = 3
  Later = {3, 4}
SPECIFICATION Spec
INVARIANTS SetsOrdered VerifiedIsUsable SealedIsOpenable
PROPERTY ConsumerNeverGoesBack
CHECK_DEADLOCK FALSE
