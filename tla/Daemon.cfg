CONSTANTS
  d1 = d1
  d2 = d2
  d3 = d3
  h1 = h1
  h2 = h2
  Procs = {d1, d2, d3}
  Homes = {h1, h2}
  HomeOf <- TwoHomes
  Ghost = Ghost
  NoFile = NoFile
  Cli = d2
  Probed = d1
  MaxKills = 1
  MaxRestarts = 3
  MaxPause = 1
  MaxRuns = 3
  Healths = {"ok", "failed"}
  p1 = p1
  p2 = p2
  Publishers = {p1, p2}
  Watcher = Watcher
  Keys = {gpu}
  NoKey = NoKey
  NoThread = NoThread
  MaxRecorded = 2
  Window = 1
  Capacity = 2
  MinInterval = 2
  MaxEvents = 3
  MaxTime = 2
  MaxPanics = 1
  PipeMax = 1
  MaxTimeouts = 1
SPECIFICATION MCSpec
CHECK_DEADLOCK FALSE
INVARIANTS
  StartsAreSound
  GivenUpForCause
  PostMortemsAreRight
  PanicProceeds
PROPERTIES
  StopEnds
  ClientIsServed
