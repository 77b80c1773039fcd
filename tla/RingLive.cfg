CONSTANTS
  t1 = t1
  t2 = t2
  child = child
  nobody = nobody
  Child = child
  NoOne = nobody
  Capacity = 8
  FrameHeader = 2
  FrameAlign = 2
  Payloads <- MCExtremePayloads
  Threads <- MCThread
  MaxWrites = 3
  MaxCorruptions = 1
SPECIFICATION FairSpec
CHECK_DEADLOCK FALSE
INVARIANTS
  SafeRegions
PROPERTIES
  DropsAreReported
  NobodyWedges
  RecoversAfterCorruption
