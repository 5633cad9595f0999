SPECIFICATION Spec
CONSTANTS
  Names = {a, dev}
  Dev = dev
  Empty = empty
  Junk = junk
  MaxLength = 2
  MaxFiles = 4
INVARIANTS
  OnePlace
  DirectoriesAgree
PROPERTIES
  CallsShow
  NamespaceSpec
CHECK_DEADLOCK FALSE
