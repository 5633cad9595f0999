SPECIFICATION Spec
CONSTANTS
  Entries = 4
  Pages = {0, 1, 2, 3, 4, 5, 6, 7, 8, 9, 10, 11, 12, 13, 14, 15}
  Root = 1
  Identity = 2
  FreePages <- Reserved
  Phdrs <- Headers
  InitrdSize = 3
  Allocated <- LoadedAt
  FirmwareMaps <- Maps
  Touched = {0, 192, 194, 195, 196, 197}
  MaxBrk = 198
INVARIANTS
  TypeOK
  MapAgrees
  PagesApart
  CountersAgree
  RunsShortExactly
PROPERTIES
  AddressSpaceSpec
CHECK_DEADLOCK FALSE
