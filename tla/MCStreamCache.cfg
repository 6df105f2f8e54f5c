CONSTANTS
  Sector = 2
  CacheSize = 0
  MinSectors = 4
  FillSectors = 2
  ChunkSectors = 1
  StreamChunk = 3
  SeekRequest = 3
  Streaming = FALSE
  FileEnd = 11
  SilentFailures = FALSE
  Reloads = TRUE
  LowPercent = 5
  MaxErrors = 1
  ErrorCap = 3
  Junk = Junk
SPECIFICATION Spec
INVARIANTS IInv BufferHoldsWindow PieceLostOnlyToFlush EndIsReal
PROPERTIES BackBytesKept ImplementsFileReader
CHECK_DEADLOCK TRUE
