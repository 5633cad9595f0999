SPECIFICATION AllSpec
CONSTANTS
  BLOCK_SIZE = 4
  SIZE_MAX = 127
  TAR_BLOCK_SIZE = 2
  HEADER_SIZE = 1
  PRINTF_NTOA_BUFFER_SIZE = 8
  Values <- ShortValues
  Components = {"a", "b", ".", "..", ""}
  MaxComponents = 5
  Cwds <- SomeCwds
  Archives <- SmallArchives
  Dates <- SomeDates
  Hours = {0, 1, 11, 12, 13, 23}
  Parts <- SomeParts
  Rooms = {0, 1, 4, 12}
  Arguments = {0, 7, 16, 99, 255}
  Widths = {0, 3, 9}
  Flags = {"ZEROPAD", "LEFT", "PLUS", "SPACE", "HASH", "PRECISION"}
  Bytes = {1, 2}
  terminal_width = 2
  terminal_height = 2
  Glyphs = {"a", "b"}
  MaxText = 7
  MAX_LOG_OUTPUTS = 2
  MAX_MSG_SIZE = 9
  LevelLength = 2
  MaxLevels = {1, 4}
  MaxAdded = 3
  PieceLengths = {1, 3, 4, 6}
  Nodes = {n1, n2, n3, n4}
  Items = {a, b}
  NULL = NULL
  LENGTH_MAX = 6
  Starts = {1, 2, 3, 4, 5, 6, 7}
  Data = {1, 2}
INVARIANTS
  CanonicalRight
  ChildrenRight
  TarReadsRight
  FileKeeps
  ClockRight
  NumbersRight
  FormatRight
  ScreenShows
  LogRight
  WellLinked
  TreeKeeps
PROPERTIES
  SequenceSpec
CHECK_DEADLOCK FALSE
