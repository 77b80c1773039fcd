CONSTANTS
  Pids = {1, 2}
  Command = 1
  Main = 0
  ScanEvery = 2
  DrainWait = 1
  MaxFiles = 2
  MaxFrames = 1
SPECIFICATION FamilySpec
CHECK_DEADLOCK FALSE
INVARIANTS
  FoundIsDrained
