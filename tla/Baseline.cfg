SPECIFICATION Spec
CONSTANTS
  Tracked = {p1, p2}
  Contents = {absent, text}
  p1 = p1
  p2 = p2
  absent = absent
  text = text
  Begin <- MCBegin
  NotRecorded = NotRecorded
INVARIANT IInv
