CONSTANTS
  p1 = p1
  p2 = p2
  k1 = k1
  k2 = k2
  t1 = t1
  t2 = t2
  t3 = t3
  Threads = {t1, t2, t3}
  Pids = {p1, p2}
  Launched = {p1, p2}
  Tokens = {k1, k2}
  NoThread = NoThread
  NoPid = NoPid
  NoToken = NoToken
  Requests <- AllRequests
  MayRefuse = TRUE
  MaxSessions = 3
  MaxEmits = 1
SPECIFICATION Spec
SYMMETRY Perms
CONSTRAINT TokensOfPids
CHECK_DEADLOCK FALSE
INVARIANTS
  SessionsAreOwned
  EventsGoHome
  SomeCallProceeds
