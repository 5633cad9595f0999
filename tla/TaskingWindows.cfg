SPECIFICATION Spec
CONSTANTS
  t1 = t1
  t2 = t2
  Tasks <- TwoTasks
  Main = main
  Idle = idle
  Delays = {0, 1}
  MainDelay = 3
  Preemptible <- Outside
  MaxTime = 2
  MaxDepth = 5
  MaxQueued = 4
INVARIANTS
  Census
  WokenInTime
  NextThreadExists
  NeverSpins
  IdleWakeable
