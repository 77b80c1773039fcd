CONSTANTS
  t1 = t1
  t2 = t2
  child = child
  nobody = nobody
  Child = child
  NoOne = nobody
  Capacity = 8
  FrameHeader = 2
  FrameAlign = 2
  Payloads <- MCPayloads
  Threads <- MCThreads
  MaxWrites = 4
  MaxCorruptions = 0
  c1 = c1
  c2 = c2
  c3 = c3
  Pids = {c1, c2, c3}
  Command = c1
  Main = Main
  ScanEvery = 2
  DrainWait = 1
  MaxFiles = 2
  MaxFrames = 1
  b1 = b1
  b2 = b2
  Buffers = {b1, b2}
  Layers = 3
  Pools = 1
  Pairs = 1
  FailureLimit = 1
  MaxMade = 3
SPECIFICATION FocusSpec
SYMMETRY Interchangeable
CHECK_DEADLOCK FALSE
INVARIANTS
  HeaderAlwaysFits
  FamilyIsSound
  HookIsExact
PROPERTY StreamSpec
