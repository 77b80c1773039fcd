CONSTANTS
  Chunked = TRUE
  MaxChunk = 6
  Events <- OneEvent
  MaxFrame = 2
  FrameHeader = 1
  MaxBytes = 2
  MaxUnitEvents = 2
  FlushMin = 0
  MaxPending = 9
  ZstdSlack = 0
  MaxTs = 9
  EncoderFails = FALSE
  Filters <- NoFilters
  MaxEvents = 3
  MaxOutages = 0
  LengthFlips <- AnyLength
  OffsetFlips <- AnyOffset
  MaxDamage = 2
  Pointers = {m1, m2}
  Queues = {q1, q2}
  OpTimes <- KernelTimes
  MaxBuffers = 3
  MaxLost = 1
  Threads = {m1, m2}
  Grace = 2
  AsyncBelow = 2
  Qualname <- CallNames
  MaxSteps = 6
  MaxCalls = 3
  MaxDrops = 1
  Sizes = {1, 3}
  MaxSamples = 3
  Tools = {m1, m2}
  Sessions = {"s1", "s2"}
  MaxChanges = 1
  Recordings <- Times
  Speeds = {0, 1, 2}
  Seconds <- SeekKeys
  Analysts = {m1, m2}
  ReportGrace = 0
  SeenCap = 2
  LastDay = 1
  MaxPasses <- FewPasses
SPECIFICATION ReadingSpec
CHECK_DEADLOCK FALSE
SYMMETRY Interchangeable
INVARIANTS
  DamageIsHandled
  BuffersArePaired
  AttributionIsSound
  MemoryIsWindowed
  CacheIsFresh
  ReplayShowsTheMoment
  DeathIsExplained
