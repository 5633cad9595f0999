SPECIFICATION Spec
CONSTANTS
  Base = 4096
  MaxBrk = 16384
  Sizes = {2000, 4016, 4065, 5000}
  RegionPages = {1}
INVARIANTS
  Linked
  Disjoint
  NextFreeFirst
  ForeignApart
  NothingLost
PROPERTIES
  ExpansionServes
  AllocatorSpec
CHECK_DEADLOCK FALSE
