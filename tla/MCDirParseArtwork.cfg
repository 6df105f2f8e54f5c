SPECIFICATION Spec
CONSTANTS
  Folder <- MCFolder
  Entries <- MCEntries
  Above <- MCAbove
  Listed = {"B", "f1", "f2", "f3"}
  Subtitle = {"s1", "s3"}
  Rank <- MCRank
  Up = ".."
  NoFolder = "none"
  Batch = 1
  Artwork = TRUE
  Shortage = FALSE
INVARIANT SubtitlesFound
