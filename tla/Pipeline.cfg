SPECIFICATION Spec
CONSTANTS
  Reqs = {r1, r2}
  Workers = {w1, w2}
  Tracked = {p1, p2}
  Contents = {absent, text}
  p1 = p1
  p2 = p2
  absent = absent
  text = text
  Begin <- MCBegin
  StdioPaths = {}
  Ops <- MCOps
  QueueCapacity = 1
  MaxFiles = 2
  MayPanic = FALSE
  ScanMayMiss = FALSE
  NotCaptured = NotCaptured
  Unavailable = Unavailable
  NoReq = NoReq
  NoOp = NoOp
  Nobody = Nobody
SYMMETRY Symmetry
INVARIANTS
  TypeOK
  FinishedIsExact
PROPERTIES
  KeepsPromise
