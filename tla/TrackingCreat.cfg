SPECIFICATION Spec
CONSTANTS
  Names <- MCNames
  Threads = {t1, t2}
  Inodes = {1, 2, 3}
  Cases <- MCCases
  CallPaths <- MCCallPaths
  Targets <- MCTargets
  Habits = {"creat"}
  MaxLinks = 3
  MaxTarget = 3
  None = None
CHECK_DEADLOCK FALSE
INVARIANTS
  EveryChangeIsTracked
