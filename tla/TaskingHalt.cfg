SPECIFICATION FairSpec
CONSTANTS
  t1 = t1
  t2 = t2
  Tasks <- TwoTasks
  Main = main
  Idle = idle
  Delays = {0, 1}
  MainDelay = 1
  Preemptible <- Calm
  MaxTime = 2
  MaxDepth = 4
  MaxQueued = 6
PROPERTIES
  SleeperRuns
CHECK_DEADLOCK FALSE
