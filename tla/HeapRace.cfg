SPECIFICATION RaceSpec
CONSTANTS
  Base = 4096
  MaxBrk = 16384
  Sizes = {2000, 5000}
  RegionPages = {1}
  Wanted = {2000, 4000}
INVARIANTS
  RaceSound
CHECK_DEADLOCK FALSE
