\* Two threads; six KELs, two caches and five lookups; two hubs and a clock of four readings with
\* the last one within reach.
CONSTANTS
  None = None
  Threads = {"h1", "h2"}
  KELs = {"a", "b", "big", "huge", "broken", "odd"}
  Replayable = {"a", "b", "big", "huge", "odd"}
  Encodable = {"a", "b", "big", "huge", "broken"}
  Cost <- MCCost
  Caches = {"c1", "c2"}
  MaxBytes <- MCMaxBytes
  MaxLookups = 5
  Targets = {"t1", "t2"}
  MaxSkewMillis = 2
  FloorClampMillis = 1
  MaxInt64 = 3
SPECIFICATION SharedSpec
INVARIANTS CacheSound AnswerIsReplay StampsSound
PROPERTY StrictlyIncreasing
