CONSTANTS
  c1 = c1
  c2 = c2
  Clients = {c1, c2}
  MaxStops = 1
  s1 = s1
  s2 = s2
  Emitters = {s1, s2}
  NoEvent = 0
  Report = 99
  QueueMax = 1
  BatchMax = 2
  MaxEvents = 2
  MaxFailures = 1
  m1 = m1
  m2 = m2
  Libraries = {m1, m2}
  NoLibrary = NoLibrary
  MaxChanges = 3
  MaxAttaches = 2
SPECIFICATION MCSpec
CHECK_DEADLOCK FALSE
INVARIANTS
  RunIsRecorded
  CompleteMeansExitStatus
  NothingLeftNorTakenEarly
  NoEventIsLost
  SidecarIsTransparent
PROPERTIES
  RecordingEnds
  NothingWaitsForEver
