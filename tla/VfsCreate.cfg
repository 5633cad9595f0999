SPECIFICATION Spec
CONSTANTS
  Names = {a, dev}
  Dev = dev
  Empty = empty
  Junk = junk
  MaxLength = 1
  MaxFiles = 3
PROPERTIES
  CreateShows
CHECK_DEADLOCK FALSE
