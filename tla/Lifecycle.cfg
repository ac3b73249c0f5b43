SPECIFICATION EndingSpec
CONSTANTS
  main = main
  Procs = {main, c1}
  Main = main
  Supervisor = supervisor
  MaxInbox = 1
  Pids = {h1, h2, h3}
  NoPid = NoPid
  MaxQueue = 1
INVARIANTS
  MainStatusKept
PROPERTIES
  StopEnds
  CommandEndsLoop
  EndsByItself
  
CHECK_DEADLOCK FALSE
