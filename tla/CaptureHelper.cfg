SPECIFICATION FairSpec
CONSTANTS
  p1 = p1
  p2 = p2
  Paths = {p1}
  Chunks = {0, 1}
  Pids = {h1, h2}
  Contents <- MCContents
  Begin <- MCBegin
  MaxFile = 1
  MaxTotal = 3
  IoMayHang = TRUE
  Absent = Absent
  Special = Special
  NotCaptured = NotCaptured
  Unavailable = Unavailable
  NoPid = NoPid
  NoCall = NoCall
INVARIANTS
  AnswerIsForCall
  QuietWhenIdle
  
  TotalWithinLimit
PROPERTIES
  CallReturns
