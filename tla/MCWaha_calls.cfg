SPECIFICATION MCSpec
CONSTANTS
  Calls = {c1, c2, c3}
  Threshold = 3
  SessionOpen = 4
  CacheTTL = 1
  HealthOpen = 3
  Cooldown = 6
  StepTime = 1
  QrCalls = {q1, q2}
  NoCall = NoCall NoSession = NoSession NoReply = NoReply GaveUp = GaveUp
  Sessions = {s1}
  Tries = 3
  FailStop = 2
  Capture = TRUE
  MaxMoves = 2
  MaxLost = 1
  r1 = r1 r2 = r2 r3 = r3 api = api worker = worker k1 = k1 w1 = w1
  NoCaller = NoCaller
  Callers = {r1, r2, r3}
  Procs = {api, worker}
  ProcOf <- TwoProcs
  Keys = {k1}
  KeyOf <- OneKey
  WahaSessions = {w1}
  SessionOf <- OneSession
  FreeMode = TRUE
  LockConfigured = TRUE
  LockTTL = 2
  MaxWait = 1
  EnsureTimeout = 2
  MaxBody = 3
  MovesTo = {"working"}
  MaxFaults = 1
SYMMETRY SameTenant
INVARIANTS Settles AnswersTrue JoinedAreServed ExclusiveBodies SharedRuns
