SPECIFICATION FairSpec
CONSTANTS
  Entry <- MCEntry
  Null = "null"
  Name <- MCName
  File = {"P"}
  Items <- MCItems
  Folder = {"A", "B"}
  Subs <- MCSubs
  Files <- MCFiles
  Below <- MCBelow
  Edits = {"enqueue", "dequeue"}
  Shortage = FALSE
  EntryLimit = 10
  Preempt = TRUE
INVARIANT SelectionInList
PROPERTY EditEnds
\* What follows a read of no entry is not modelled.
CHECK_DEADLOCK FALSE
