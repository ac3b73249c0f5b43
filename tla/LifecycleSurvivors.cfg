SPECIFICATION Spec
CONSTANTS
  main = main
  Procs = {main, c1, c2}
  Main = main
  Supervisor = supervisor
  MaxInbox = 2
SYMMETRY Symmetry
INVARIANT SurvivorsAreNoted
