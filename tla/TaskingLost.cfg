SPECIFICATION Spec
CONSTANTS
  t1 = t1
  t2 = t2
  Tasks <- TwoTasks
  Main = main
  Idle = idle
  Delays = {0, 1, 2}
  MainDelay = 4
  Preemptible <- Calm
  MaxTime = 3
  MaxDepth = 4
  MaxQueued = 6
SYMMETRY Symmetric
INVARIANTS
  WakesAllDue
