SPECIFICATION Spec
CONSTANTS
  t1 = t1
  t2 = t2
  Tasks <- TwoTasks
  Main = main
  Idle = idle
  Delays = {0, 1}
  MainDelay = 3
  Preemptible <- PCs
  MaxTime = 1
  MaxDepth = 3
  MaxQueued = 3
SYMMETRY Symmetric
INVARIANTS
  NextThreadExists
CHECK_DEADLOCK FALSE
