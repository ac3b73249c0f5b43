SPECIFICATION Spec
CONSTANTS
  Reqs = {r1, r2, r3}
  Workers = {w1, w2}
  Tracked = {p1, p2}
  Contents = {absent, text}
  p1 = p1
  p2 = p2
  absent = absent
  text = text
  Begin <- MCBegin
  StdioPaths = {p2}
  Ops <- MCWrite
  QueueCapacity = 1
  MaxFiles = 1
  MayPanic = TRUE
  ScanMayMiss = TRUE
  NotCaptured = NotCaptured
  Unavailable = Unavailable
  NoReq = NoReq
  NoOp = NoOp
  Nobody = Nobody
SYMMETRY Symmetry
INVARIANTS
  
  NoBlindContinue
  OneOwner
PROPERTIES
  FirstCaptureStays
  LossIsKept
