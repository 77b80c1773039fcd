CONSTANTS
  Chunked = TRUE
  MaxChunk = 3
  Events <- TimedEvents
  MaxFrame = 2
  FrameHeader = 1
  MaxBytes = 9
  MaxUnitEvents = 2
  FlushMin = 0
  MaxPending = 5
  ZstdSlack = 0
  MaxTs = 9
  EncoderFails = FALSE
  Filters <- AllFilters
  MaxEvents = 3
  MaxOutages = 1
SPECIFICATION PolledSpec
CHECK_DEADLOCK FALSE
INVARIANTS
  LimitsAreKept
  FilteredReadAgrees
  IndexIsExact
  PollsContinue
