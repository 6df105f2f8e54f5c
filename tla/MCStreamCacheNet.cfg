CONSTANTS
  Sector = 2
  CacheSize = 0
  MinSectors = 4
  FillSectors = 2
  ChunkSectors = 2
  StreamChunk = 0
  SeekRequest = 20
  Streaming = TRUE
  FileEnd = 9
  SilentFailures = TRUE
  Reloads = FALSE
  LowPercent = 5
  MaxErrors = 1
  ErrorCap = 3
  Junk = Junk
SPECIFICATION Spec
INVARIANTS PositionsAgree
PROPERTIES ReadEnds CommandEnds
CHECK_DEADLOCK TRUE
