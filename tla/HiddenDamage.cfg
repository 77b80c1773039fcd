CONSTANTS
  Chunked = TRUE
  MaxChunk = 6
  Events <- OneEvent
  MaxFrame = 2
  FrameHeader = 1
  MaxBytes = 2
  MaxUnitEvents = 2
  FlushMin = 0
  MaxPending = 9
  ZstdSlack = 0
  MaxTs = 9
  EncoderFails = FALSE
  Filters <- NoFilters
  MaxEvents = 3
  MaxOutages = 0
  LengthFlips <- AnyLength
  OffsetFlips <- NoOffset
  MaxDamage = 1
SPECIFICATION DamageSpec
CHECK_DEADLOCK FALSE
INVARIANTS
  DamageIsDescribed
