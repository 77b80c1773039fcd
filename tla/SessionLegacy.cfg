CONSTANTS
  Chunked = FALSE
  MaxChunk = 3
  Events <- SizedEvents
  MaxFrame = 1
  FrameHeader = 1
  MaxBytes = 2
  MaxUnitEvents = 9
  FlushMin = 0
  MaxPending = 3
  ZstdSlack = 1
  MaxTs = 9
  EncoderFails = TRUE
  Filters <- NoFilters
  MaxEvents = 3
  MaxOutages = 2
SPECIFICATION LiveSpec
CHECK_DEADLOCK FALSE
INVARIANTS
  TornTailIsOverwritten
  StorageErrorIsCurrent
  WriterKeepsItsWord
PROPERTIES
  EventLogSpec
  HeldEventsReachDisk
